---- MODULE Spec2Model ----
(***************************************************************************)
(* A model of fsfill: the usage map (src/src/usage_map.rs), the bitmap     *)
(* view (src/src/bitmap.rs), the space filler (src/src/fill.rs), the       *)
(* ext2/3/4 group and inode scanner (src/src/filesys/e2fs) and the         *)
(* top-level control flow (src/src/main.rs).                               *)
(*                                                                         *)
(* Each component has its own specification (MapSpec, BitmapSpec, ...)     *)
(* over the shared variables; the variables of the components that a       *)
(* specification does not run stay at their idle values.                   *)
(***************************************************************************)
EXTENDS Integers, Sequences, FiniteSets, TLC

(***************************************************************************)
(* Bounds.                                                                 *)
(***************************************************************************)

\* u64 arithmetic is modelled modulo U64Mod (a scaled-down 2^64): the largest
\* u64 is U64Mod - 1.
U64Mod == 1048576

\* Largest map size (argument of UsageMap::new) explored by MapSpec.
MaxLen == 4

\* Longest byte buffer a bitmap is built from in BitmapSpec.
MaxBytes == 2

\* Largest drive (in bytes) filled in FillSpec.
MaxDrive == 6

\* The length of the filler's scratch buffer, `[0; 4096]` in the code, scaled
\* down so that a segment spans several refills.
BufLen == 2

(***************************************************************************)
(* State.                                                                  *)
(***************************************************************************)

VARIABLES
    \* -- usage map (usage_map.rs) --
    map,              \* UsageMap.0: the vector of segments
    map_len,          \* the len given to UsageMap::new
    panicked,         \* a panic!/assert!/unwrap has aborted the program
    last,             \* the last call made on the map and the map before it
    overflow_checks,  \* build profile: TRUE = overflow panics, FALSE = wraps
    \* -- bitmap (bitmap.rs) --
    bmp,              \* Bitmap.0: the byte buffer
    bit_idx,          \* the idx of the last check_bit call (-1: none yet)
    bit_res,          \* what that call returned
    \* -- filler (fill.rs) --
    fpc,              \* where fill_free_space_with stands
    fill_mode,        \* cfg.fill_mode: which generator is used
    drive,            \* the drive's bytes (offset o is drive[o + 1])
    cursor,           \* the drive's file position
    buf,              \* the scratch buffer
    head,             \* the buffer head
    gen_count,        \* how many bytes the generator has produced
    seg_i,            \* the segment the `for` loop is at
    written,          \* `written` of the current segment
    wlog,             \* the bytes the drive accepted, in order
    all_whole,        \* every write so far accepted its whole slice
    write_issued,     \* drive.write has been called
    \* -- main and the scan (main.rs, filesys/e2fs) --
    pc,               \* where main stands
    cfg,              \* the Config built from the command line
    img,              \* what the drive holds, as the scan decodes it
    fs,               \* the Fs built by the scan (<<>>: not yet)
    bg_i,             \* the group the loop of scan_free_space is at
    opened,           \* how the drive is open: "closed", "r" or "rw"
    \* -- ExtentTreeIterator (filesys/e2fs/extent.rs) --
    it_pc,            \* "idle", "iter", "done" (next returned None) or "panicked"
    it_tree,          \* the root node of the tree iterated
    it_indices,       \* the path of the iterator
    it_yielded        \* the items next has returned, in order

mapVars == <<map, map_len, panicked, last, overflow_checks>>
bmpVars == <<bmp, bit_idx, bit_res>>
fillVars == <<fpc, fill_mode, drive, cursor, buf, head, gen_count, seg_i, written,
              wlog, all_whole, write_issued>>
mainVars == <<pc, cfg, img, fs, bg_i, opened>>
iterVars == <<it_pc, it_tree, it_indices, it_yielded>>

vars == <<mapVars, bmpVars, fillVars, mainVars, iterVars>>

\* What the actions of one component leave alone.
NotMapVars == <<bmpVars, fillVars, mainVars, iterVars>>
NotBmpVars == <<mapVars, fillVars, mainVars, iterVars>>
NotBmpVars_but_panicked ==
    <<map, map_len, last, overflow_checks, fillVars, mainVars, iterVars>>
NotFillVars ==
    <<map_len, panicked, last, overflow_checks, bmpVars, mainVars, iterVars>>

(***************************************************************************)
(* usage_map.rs                                                            *)
(***************************************************************************)

Free == "Free"
Used == "Used"
AllocStatus == {Free, Used}

Segment(start, end, status) == [start |-> start, end |-> end, status |-> status]

\* Segment::size
seg_size(s) == s.end - s.start

\* Vec::remove (1-based position).
vec_remove(v, pos) == SubSeq(v, 1, pos - 1) \o SubSeq(v, pos + 1, Len(v))

\* Vec::insert (1-based position).
vec_insert(v, pos, e) == SubSeq(v, 1, pos - 1) \o <<e>> \o SubSeq(v, pos, Len(v))

\* Iterator::position over a set of (1-based) hits: the first one, 0 for None.
position(hits) ==
    IF hits = {} THEN 0 ELSE CHOOSE i \in hits : \A j \in hits : i <= j

\* UsageMap::new (len > 0 is asserted by the code).
new(len) == <<Segment(0, len, Free)>>

\* UsageMap::size
size(m) == m[Len(m)].end

\* The result of a call on the map: the map afterwards and whether the call
\* panicked.
Returned(m) == [panic |-> FALSE, map |-> m]
Panicked(m) == [panic |-> TRUE, map |-> m]

\* UsageMap::clean_zero_sized
RECURSIVE clean_zero_sized(_)
clean_zero_sized(v) ==
    LET pos == position({i \in 1..Len(v) : v[i].start = v[i].end})
    IN  IF pos = 0 THEN v ELSE clean_zero_sized(vec_remove(v, pos))

\* The loop of UsageMap::merge_neighbours, from position hd (the code's head, 1-based).
RECURSIVE merge_from(_, _)
merge_from(v, hd) ==
    IF hd + 1 > Len(v) THEN v
    ELSE IF v[hd].status = v[hd + 1].status
         THEN merge_from(
                  vec_remove([v EXCEPT ![hd].end = v[hd + 1].end], hd + 1),
                  hd)
         ELSE merge_from(v, hd + 1)

\* Mutant: neighbours of the same status are left unmerged.
merge_neighbours_skipped(v) == v

\* UsageMap::merge_neighbours
merge_neighbours(v) == merge_from(v, 1)

\* The loop `for _ in (start_i + 1)..end_i { vector.remove(start_i + 1) }`.
RECURSIVE remove_between(_, _, _)
remove_between(v, start_i, n) ==
    IF n <= 0 THEN v ELSE remove_between(vec_remove(v, start_i + 1), start_i, n - 1)

\* Mutant: when the neighbours differ and the left one has the new status, the
\* right neighbour's start is left where it was.
adjust_stale_start(v, start_i, nw) ==
    LET end_i == start_i + 1
    IN  IF v[start_i].status = v[end_i].status
        THEN IF v[start_i].status = nw.status
             THEN vec_remove([v EXCEPT ![start_i].end = v[end_i].end], end_i)
             ELSE vec_insert(
                      [v EXCEPT ![start_i].end = nw.start, ![end_i].start = nw.end],
                      start_i + 1, nw)
        ELSE IF v[start_i].status = nw.status
             THEN [v EXCEPT ![start_i].end = nw.end]
             ELSE [v EXCEPT ![start_i].end = nw.start, ![end_i].start = nw.start]

\* Mutant: the two branches for neighbours of different status are swapped.
adjust_swapped(v, start_i, nw) ==
    LET end_i == start_i + 1
    IN  IF v[start_i].status = v[end_i].status
        THEN IF v[start_i].status = nw.status
             THEN vec_remove([v EXCEPT ![start_i].end = v[end_i].end], end_i)
             ELSE vec_insert(
                      [v EXCEPT ![start_i].end = nw.start, ![end_i].start = nw.end],
                      start_i + 1, nw)
        ELSE IF v[start_i].status = nw.status
             THEN [v EXCEPT ![start_i].end = nw.start, ![end_i].start = nw.start]
             ELSE [v EXCEPT ![start_i].end = nw.end, ![end_i].start = nw.end]

\* The four cases of add_segment on the start segment v[start_i] and the end
\* segment v[start_i + 1].
adjust(v, start_i, nw) ==
    LET end_i == start_i + 1
    IN  IF v[start_i].status = v[end_i].status
        THEN IF v[start_i].status = nw.status
             THEN vec_remove([v EXCEPT ![start_i].end = v[end_i].end], end_i)
             ELSE vec_insert(
                      [v EXCEPT ![start_i].end = nw.start, ![end_i].start = nw.end],
                      start_i + 1, nw)
        ELSE IF v[start_i].status = nw.status
             THEN [v EXCEPT ![start_i].end = nw.end, ![end_i].start = nw.end]
             ELSE [v EXCEPT ![start_i].end = nw.start, ![end_i].start = nw.start]

\* add_segment after its assertions: locate, delete, duplicate, adjust, clean
\* and merge.  An unwrap of a None position panics.
add_segment_checked(m, nw) ==
    LET start_i == position({i \in 1..Len(m) :
                                 nw.start >= m[i].start /\ nw.start < m[i].end})
        end_i   == position({i \in 1..Len(m) :
                                 nw.end > m[i].start /\ nw.end <= m[i].end})
    IN  IF start_i = 0 \/ end_i = 0 THEN Panicked(m)
        ELSE LET v1 == remove_between(m, start_i, end_i - (start_i + 1))
                 v2 == IF start_i = end_i
                       THEN vec_insert(v1, start_i + 1, v1[start_i])
                       ELSE v1
             IN  Returned(merge_neighbours(clean_zero_sized(adjust(v2, start_i, nw))))

\* Mutant: an end beyond the map is cut off instead of asserted.
add_segment_clipping(m, nw) ==
    IF nw.start = nw.end THEN Returned(m)
    ELSE IF ~(nw.start < nw.end) THEN Panicked(m)
    ELSE add_segment_checked(
             m, [nw EXCEPT !.end = IF nw.end > size(m) THEN size(m) ELSE nw.end])

\* UsageMap::add_segment
add_segment(m, nw) ==
    IF nw.start = nw.end THEN Returned(m)
    ELSE IF ~(nw.start < nw.end) THEN Panicked(m)
    ELSE IF ~(nw.end <= m[Len(m)].end) THEN Panicked(m)
    ELSE add_segment_checked(m, nw)

\* UsageMap::update.  start + size is a u64 addition: with overflow checks it
\* panics when the sum does not fit, without them it wraps.
update(m, start, sz, status) ==
    LET map_size == size(m)
        sum      == start + sz
    IN  IF sum >= U64Mod /\ overflow_checks THEN Panicked(m)
        ELSE LET wrapped == sum % U64Mod
                 end     == IF wrapped > map_size THEN map_size ELSE wrapped
             IN  IF ~(start <= map_size) THEN Panicked(m)
                 ELSE add_segment(m, Segment(start, end, status))

\* The status of byte b in map m.
status_at(m, b) ==
    LET hits == {i \in 1..Len(m) : m[i].start <= b /\ b < m[i].end}
    IN  IF hits = {} THEN "none" ELSE m[CHOOSE i \in hits : TRUE].status

(***************************************************************************)
(* MapSpec: a program that creates a map and calls update / add_segment.   *)
(***************************************************************************)

\* Arguments tried: every offset up to one past the map, and the largest u64s.
Offsets == 0..(MaxLen + 1)
Sizes   == (0..(MaxLen + 1)) \cup {U64Mod - 1}

NoCall == [op |-> "new", start |-> 0, arg |-> 0, status |-> Free,
           before |-> <<>>, repeat |-> FALSE]

\* The idle values of the components a specification does not run.
BitmapIdle == bmp = <<>> /\ bit_idx = -1 /\ bit_res = FALSE

IterIdle == it_pc = "idle" /\ it_tree = <<>> /\ it_indices = <<>> /\ it_yielded = <<>>

FillIdle ==
    /\ fpc = "idle"
    /\ fill_mode = "Zero"
    /\ drive = <<>>
    /\ cursor = 0
    /\ buf = <<>>
    /\ head = 0
    /\ gen_count = 0
    /\ seg_i = 0
    /\ written = 0
    /\ wlog = <<>>
    /\ all_whole = TRUE
    /\ write_issued = FALSE

NoCfg == [report_only |-> FALSE, fs_type |-> "None", ignore_recovery |-> FALSE,
          ignore_readonly |-> FALSE]

MainIdle ==
    /\ pc = "idle"
    /\ cfg = NoCfg
    /\ img = <<>>
    /\ fs = <<>>
    /\ bg_i = 0
    /\ opened = "closed"

MapInit ==
    /\ IterIdle
    /\ BitmapIdle
    /\ FillIdle
    /\ MainIdle
    /\ map_len \in 1..MaxLen
    /\ map = new(map_len)
    /\ panicked = FALSE
    /\ last = NoCall
    /\ overflow_checks \in BOOLEAN

\* A call of map.update(start, sz, status).
MapUpdate ==
    /\ ~panicked
    /\ \E start \in Offsets, sz \in Sizes, status \in AllocStatus :
          LET r == update(map, start, sz, status)
          IN  /\ map' = r.map
              /\ panicked' = r.panic
              /\ last' = [op |-> "update", start |-> start, arg |-> sz,
                          status |-> status, before |-> map,
                          repeat |-> /\ last.op = "update"
                                     /\ last.start = start
                                     /\ last.arg = sz
                                     /\ last.status = status]
    /\ UNCHANGED <<map_len, overflow_checks, NotMapVars>>

\* A call of map.add_segment(Segment { start, end, status }).
MapAddSegment ==
    /\ ~panicked
    /\ \E start \in Offsets, end \in Offsets, status \in AllocStatus :
          LET r == add_segment(map, Segment(start, end, status))
          IN  /\ map' = r.map
              /\ panicked' = r.panic
              /\ last' = [op |-> "add_segment", start |-> start, arg |-> end,
                          status |-> status, before |-> map, repeat |-> FALSE]
    /\ UNCHANGED <<map_len, overflow_checks, NotMapVars>>

MapNext == MapUpdate \/ MapAddSegment

MapSpec == MapInit /\ [][MapNext]_vars

(***************************************************************************)
(* Claims about the usage map, checked under MapSpec.                      *)
(***************************************************************************)

Min(a, b) == IF a < b THEN a ELSE b

\* C2: in the map returned by new and after any sequence of update and
\* add_segment calls that return normally, no segment is empty and no two
\* adjacent segments have the same status.
C2_NoEmptyNoEqualNeighbours ==
    ~panicked =>
        /\ \A i \in 1..Len(map) : map[i].start < map[i].end
        /\ \A i \in 1..(Len(map) - 1) : map[i].status # map[i + 1].status

\* A call returned normally and left fewer segments than it found: segments
\* were deleted, emptied or merged.
C2_Witness ==
    /\ ~panicked
    /\ last.op = "update"
    /\ Len(last.before) >= 3
    /\ Len(map) < Len(last.before)

\* C3: the segments exactly partition [0, len): the first starts at 0, each
\* ends where the next starts, the last ends at len (size() never changes).
C3_Partition ==
    ~panicked =>
        /\ map[1].start = 0
        /\ \A i \in 1..(Len(map) - 1) : map[i].end = map[i + 1].start
        /\ map[Len(map)].end = map_len
        /\ size(map) = map_len

\* A call returned normally and left a map of at least three segments.
C3_Witness ==
    /\ ~panicked
    /\ last.op \in {"update", "add_segment"}
    /\ map # last.before
    /\ Len(map) >= 3

\* The range [start, min(start + size, N)) that update is specified to set.
UpdateRange(call) ==
    {b \in 0..(size(call.before) - 1) :
        call.start <= b /\ b < Min(call.start + call.arg, size(call.before))}

\* C4: for every start <= N, every size and every status s, update yields the
\* map in which each byte of [start, min(start + size, N)) has status s and
\* every other byte keeps its status; an empty range leaves the map unchanged.
C4_UpdateSetsRange ==
    (last.op = "update" /\ last.start <= size(last.before)) =>
        /\ ~panicked
        /\ \A b \in 0..(map_len - 1) :
              status_at(map, b) = IF b \in UpdateRange(last)
                                  THEN last.status
                                  ELSE status_at(last.before, b)
        /\ UpdateRange(last) = {} => map = last.before

\* The statement of C4 for the sizes whose sum with start fits a u64: it holds.
C4_WhenSumFits ==
    (last.op = "update" /\ last.start + last.arg < U64Mod) => C4_UpdateSetsRange

\* C5: update called twice in a row with identical arguments leaves the same
\* segment sequence as calling it once.
C5_Idempotent ==
    (last.op = "update" /\ last.repeat) => (~panicked /\ map = last.before)

\* The second of two identical updates that change part of a map of several
\* segments has returned.
C5_Witness ==
    /\ last.op = "update"
    /\ last.repeat
    /\ ~panicked
    /\ UpdateRange(last) # {}
    /\ Len(map) >= 3

\* C6 as stated: update with start > N panics, add_segment panics when
\* start > end or end > N, and the map is unmodified when the panic is raised.
C6_PanicsLeaveMap ==
    /\ (last.op = "update" /\ last.start > size(last.before)) =>
           (panicked /\ map = last.before)
    /\ (last.op = "add_segment"
          /\ (last.start > last.arg \/ last.arg > size(last.before))) =>
           (panicked /\ map = last.before)

\* C6 (amended): update with start > N panics; add_segment panics when
\* start > end, or when start < end and end > N; in each case the map is
\* unmodified.  A segment with start = end returns without a panic and without
\* a change, wherever it lies.
C6_PanicsLeaveMapAmended ==
    /\ (last.op = "update" /\ last.start > size(last.before)) =>
           (panicked /\ map = last.before)
    /\ (last.op = "add_segment"
          /\ (\/ last.start > last.arg
              \/ (last.start < last.arg /\ last.arg > size(last.before)))) =>
           (panicked /\ map = last.before)
    /\ (last.op = "add_segment" /\ last.start = last.arg) =>
           (~panicked /\ map = last.before)

\* add_segment was called on a map of several segments with an end beyond the
\* map, and panicked.
C6_Witness ==
    /\ panicked
    /\ last.op = "add_segment"
    /\ last.start < size(last.before)
    /\ last.arg > size(last.before)
    /\ Len(last.before) >= 2

(***************************************************************************)
(* bitmap.rs                                                               *)
(***************************************************************************)

\* 2^n
RECURSIVE pow2(_)
pow2(n) == IF n = 0 THEN 1 ELSE 2 * pow2(n - 1)

\* x >> n on an unsigned integer.
shr(x, n) == x \div pow2(n)

\* Bitmap::from_bytes: the bitmap owns a copy of the bytes.
from_bytes(bytes) == bytes

\* Mutant: the bits of a byte are counted from the most significant one.
check_bit_msb_first(b, idx) ==
    LET byte    == b[(idx \div 8) + 1]
        bit_pos == idx % 8
    IN  (shr(byte, 7 - bit_pos) % 2) = 1

\* Bitmap::check_bit: (byte >> bit_pos) & 0x01 == 1
check_bit(b, idx) ==
    LET byte    == b[(idx \div 8) + 1]
        bit_pos == idx % 8
    IN  (shr(byte, bit_pos) % 2) = 1

(***************************************************************************)
(* BitmapSpec: a bitmap is built from a byte buffer and queried.           *)
(***************************************************************************)

\* The bytes of the test of bitmap.rs and the corner values.
SampleBytes == {67, 86, 250, 0, 255, 1, 128}

\* Every one-byte buffer, and the longer buffers over the sample bytes.
Buffers ==
    {<<x>> : x \in 0..255}
        \cup UNION {[1..n -> SampleBytes] : n \in 2..MaxBytes}

BitmapInit ==
    /\ IterIdle
    /\ map = <<>> /\ map_len = 0 /\ panicked = FALSE /\ last = NoCall
    /\ overflow_checks = TRUE
    /\ FillIdle
    /\ MainIdle
    /\ \E bytes \in Buffers : bmp = from_bytes(bytes)
    /\ bit_idx = -1
    /\ bit_res = FALSE

\* A call of bmp.check_bit(idx); an idx beyond the buffer panics on the index.
BitmapCheckBit ==
    /\ ~panicked
    /\ \E idx \in 0..(8 * Len(bmp)) :
          /\ bit_idx' = idx
          /\ IF idx \div 8 < Len(bmp)
             THEN bit_res' = check_bit(bmp, idx) /\ panicked' = FALSE
             ELSE bit_res' = bit_res /\ panicked' = TRUE
    /\ UNCHANGED <<bmp, NotBmpVars_but_panicked>>

BitmapNext == BitmapCheckBit

BitmapSpec == BitmapInit /\ [][BitmapNext]_vars

\* Bit k of a byte, counted from the least significant bit, in the byte's
\* binary expansion: the remainder modulo 2^(k+1) reaches 2^k.
BitFromLsb(byte, k) == (byte % pow2(k + 1)) >= pow2(k)

\* C7: for every index i with 0 <= i < 8*L, check_bit(i) is true exactly when
\* bit (i mod 8), counted from the least significant bit, of byte i div 8 is 1.
C7_CheckBitLsbFirst ==
    (~panicked /\ bit_idx >= 0) =>
        bit_res = BitFromLsb(bmp[(bit_idx \div 8) + 1], bit_idx % 8)

\* check_bit returned true for a bit of the second byte of a buffer whose
\* second byte is neither 0x00 nor 0xff, for a bit whose mirror image is clear.
C7_Witness ==
    /\ ~panicked
    /\ Len(bmp) >= 2
    /\ bit_idx \div 8 = 1
    /\ bit_res
    /\ ~BitFromLsb(bmp[2], 7 - (bit_idx % 8))

(***************************************************************************)
(* fill.rs                                                                 *)
(***************************************************************************)

FillMode == {"Zero", "ChaCha20", "Hc128"}

\* The byte every drive offset holds before the fill (0xff in tests::fill).
OrigByte == 255

\* `[0; 4096]`: the zero-initialised scratch buffer.
zero_buf == [i \in 1..BufLen |-> 0]

\* RngCore::fill_bytes.  ZeroGen leaves dest as it is.  A stream generator
\* overwrites dest with the next bytes of its stream; the k-th byte of the
\* stream is modelled by the number k, an opaque byte distinct from the others.
fill_bytes(mode, dest, count) ==
    IF mode = "Zero" THEN dest ELSE [i \in 1..Len(dest) |-> count + i]

\* How many stream bytes a fill_bytes call consumes.
generated(mode, dest) == IF mode = "Zero" THEN 0 ELSE Len(dest)

\* Write::write on the drive: the first n bytes of the slice land at the file
\* position pos.
drive_write(d, pos, slice, n) ==
    [o \in 1..Len(d) |->
        IF pos < o /\ o <= pos + n THEN slice[o - pos] ELSE d[o]]

\* What a write call of a non-empty slice may return: Err (-1), or Ok(n) with
\* n bytes accepted, n anywhere from 1 to the length of the slice.  (Write::write
\* may also return Ok(0); the model does not need it.)
WriteResults(len) == {-1} \cup (1..len)

\* Mutant: the loop counts the bytes left in the segment from the buffer head
\* instead of from `written`.
write_size_from_head(segment, wr, hd) ==
    LET buf_remaining == BufLen - hd
        to_write      == seg_size(segment) - hd
    IN  IF to_write < buf_remaining THEN to_write ELSE buf_remaining

\* `write_size` of one iteration of the while loop.
write_size_of(segment, wr, hd) ==
    LET buf_remaining == BufLen - hd
        to_write      == seg_size(segment) - wr
    IN  IF to_write < buf_remaining THEN to_write ELSE buf_remaining

(***************************************************************************)
(* FillSpec: a map is built by update calls over a drive, then             *)
(* fill_free_space_with runs over it, one loop iteration per step.         *)
(***************************************************************************)

FillInit ==
    /\ IterIdle
    /\ BitmapIdle
    /\ pc = "idle" /\ cfg = NoCfg /\ img = <<>> /\ fs = <<>> /\ bg_i = 0
    /\ opened = "rw"
    /\ write_issued = FALSE
    /\ panicked = FALSE /\ last = NoCall /\ overflow_checks = TRUE
    /\ map_len \in 1..MaxDrive
    /\ map = new(map_len)
    /\ drive = [o \in 1..map_len |-> OrigByte]
    /\ fill_mode \in FillMode
    /\ fpc \in {"build", "start"}
    /\ cursor = 0
    /\ buf = <<>>
    /\ head = 0
    /\ gen_count = 0
    /\ seg_i = 0
    /\ written = 0
    /\ wlog = <<>>
    /\ all_whole = TRUE

\* The program updates the map (a call that returns normally), and then either
\* goes on updating or calls the filler.
FillBuild ==
    /\ fpc = "build"
    /\ \E start \in 0..(map_len - 1), sz \in 1..map_len, status \in AllocStatus :
          LET r == update(map, start, sz, status)
          IN  /\ ~r.panic
              /\ map' = r.map
    /\ fpc' \in {"build", "start"}
    /\ UNCHANGED <<fill_mode, drive, cursor, buf, head, gen_count, seg_i, written,
                   wlog, all_whole, write_issued, NotFillVars>>

\* fill_free_space_with up to its `for` loop: the buffer is zeroed and filled.
FillBegin ==
    /\ fpc = "start"
    /\ buf' = fill_bytes(fill_mode, zero_buf, gen_count)
    /\ gen_count' = gen_count + generated(fill_mode, zero_buf)
    /\ head' = 0
    /\ seg_i' = 1
    /\ fpc' = "iter"
    /\ UNCHANGED <<map, fill_mode, drive, cursor, written, wlog, all_whole,
                   write_issued, NotFillVars>>

\* One step of `for segment in map`: the end of the map, a Used segment that is
\* passed over, or a Free segment whose start is sought (the seek may fail).
FillNextSegment ==
    /\ fpc = "iter"
    /\ IF seg_i > Len(map)
       THEN /\ fpc' = "done"
            /\ UNCHANGED <<seg_i, cursor, written>>
       ELSE IF map[seg_i].status = Free
            THEN \E seek_ok \in BOOLEAN :
                    IF seek_ok
                    THEN /\ cursor' = map[seg_i].start
                         /\ written' = 0
                         /\ fpc' = "write"
                         /\ UNCHANGED seg_i
                    ELSE /\ fpc' = "failed"
                         /\ UNCHANGED <<seg_i, cursor, written>>
            ELSE /\ seg_i' = seg_i + 1
                 /\ UNCHANGED <<fpc, cursor, written>>
    /\ UNCHANGED <<map, fill_mode, drive, buf, head, gen_count, wlog, all_whole,
                   write_issued, NotFillVars>>

\* One iteration of `while written < segment.size()`: refill the buffer when it
\* is used up, hand the drive a slice, and advance `written` and `head` by the
\* length of the slice, whatever the drive returned.
FillWrite ==
    /\ fpc = "write"
    /\ written < seg_size(map[seg_i])
    /\ LET refill     == head = BufLen
           buf1       == IF refill THEN fill_bytes(fill_mode, buf, gen_count) ELSE buf
           head1      == IF refill THEN 0 ELSE head
           write_size == write_size_of(map[seg_i], written, head1)
           slice      == SubSeq(buf1, head1 + 1, head1 + write_size)
       IN  /\ buf' = buf1
           /\ gen_count' = IF refill
                           THEN gen_count + generated(fill_mode, buf)
                           ELSE gen_count
           /\ write_issued' = TRUE
           /\ \E res \in WriteResults(write_size) :
                 IF res = -1 \/ opened # "rw"
                 THEN /\ fpc' = "failed"
                      /\ head' = head1
                      /\ UNCHANGED <<drive, cursor, written, wlog, all_whole>>
                 ELSE /\ drive' = drive_write(drive, cursor, slice, res)
                      /\ cursor' = cursor + res
                      /\ wlog' = wlog \o [k \in 1..res |->
                                            [seg |-> seg_i, off |-> cursor + k - 1,
                                             val |-> slice[k]]]
                      /\ all_whole' = (all_whole /\ res = write_size)
                      /\ written' = written + write_size
                      /\ head' = head1 + write_size
                      /\ UNCHANGED fpc
    /\ UNCHANGED <<map, fill_mode, seg_i, NotFillVars>>

\* The while loop ends: on to the next segment.
FillSegmentDone ==
    /\ fpc = "write"
    /\ ~(written < seg_size(map[seg_i]))
    /\ seg_i' = seg_i + 1
    /\ fpc' = "iter"
    /\ UNCHANGED <<map, fill_mode, drive, cursor, buf, head, gen_count, written,
                   wlog, all_whole, write_issued, NotFillVars>>

FillNext ==
    \/ FillBuild
    \/ FillBegin
    \/ FillNextSegment
    \/ FillWrite
    \/ FillSegmentDone

FillSpec == FillInit /\ [][FillNext]_vars

\* The drive offsets of the segments of a status.
OffsetsOf(status) ==
    {o \in 0..(size(map) - 1) : status_at(map, o) = status}

\* C8: after fill_free_space_with has run with the zero generator, every drive
\* byte inside a Free segment is 0 and every drive byte inside a Used segment
\* has the value it had before the fill.
C8_ZeroFill ==
    (fpc = "done" /\ fill_mode = "Zero") =>
        /\ \A o \in OffsetsOf(Free) : drive[o + 1] = 0
        /\ \A o \in OffsetsOf(Used) : drive[o + 1] = OrigByte

\* The statement of C8 for the runs in which every write call accepted the
\* whole slice: it holds.
C8_WhenWritesWhole ==
    (fpc = "done" /\ fill_mode = "Zero" /\ all_whole) =>
        /\ \A o \in OffsetsOf(Free) : drive[o + 1] = 0
        /\ \A o \in OffsetsOf(Used) : drive[o + 1] = OrigByte

\* The drive offsets that accepted a byte while segment i was being filled.
WrittenFor(i) == {wlog[k].off : k \in {j \in 1..Len(wlog) : wlog[j].seg = i}}

\* How many bytes the drive accepted while segment i was being filled.
CountFor(i) == Cardinality({j \in 1..Len(wlog) : wlog[j].seg = i})

\* C9: for every Free segment [s, e) the filler writes exactly e-s generator
\* bytes covering each drive offset of [s, e), whatever the write call does,
\* also when it accepts fewer bytes than the slice it was given.
C9_WritesWholeSegment ==
    fpc = "done" =>
        \A i \in 1..Len(map) :
            map[i].status = Free =>
                /\ CountFor(i) = map[i].end - map[i].start
                /\ WrittenFor(i) = map[i].start..(map[i].end - 1)

(***************************************************************************)
(* filesys/e2fs: sizes.                                                    *)
(*                                                                         *)
(* One byte of the model stands for 256 bytes of the drive, so the block   *)
(* sizes 1024 and 2048 are 4 and 8; the on-disk records that are smaller   *)
(* than that unit (group descriptor, inode, block pointer, extent header   *)
(* and entry, extent tail) take one byte each.                             *)
(***************************************************************************)

\* 2^10, the block size for s_log_block_size = 0 (1024 bytes).
MIN_BLOCK_SIZE == 4

\* The 512-byte unit i_blocks counts in.
SECTOR == 2

\* The offset of the superblock, 1024, and the size read for it.
SB_OFFSET == 4
SB_STRUCT_SIZE == 4

\* `map.update(0, 2048, ..)`: the boot area and the superblock of group 0.
BOOT_AND_SB == 8

\* `map.update(bg_start, 1024, ..)`: a backup superblock.
BACKUP_SB == 4

\* The size of a block pointer (4 bytes).
PTR_SIZE == 1

\* The descriptor size used when s_desc_size is 0 (32 bytes), and the size of
\* the GroupDescriptor struct (64 bytes).
DEFAULT_DESC_SIZE == 1
GROUP_DESC_STRUCT_SIZE == 2

\* The inode size of revision 0 (128 bytes) and the size of the Inode struct
\* (160 bytes).
GOOD_OLD_INODE_SIZE == 1
INODE_STRUCT_SIZE == 2

\* The number of entries of i_block, and how many of them are direct.
N_BLOCKS == 15
DIRECT_BLOCKS == 12

\* `idx + 1 == 8`: the inode number of the journal.
JOURNAL_INO == 8

\* The extent magic, 0xf30a.
EXT_MAGIC == 62218

\* Extent header, extent and extent index (12 bytes each), extent tail (4).
EXTENT_HEADER_SIZE == 1
EXTENT_SIZE == 1
EXTENT_IDX_SIZE == 1
EXTENT_TAIL_SIZE == 1

\* How many entries follow the header in the 60 bytes of i_block.
ROOT_SLOTS == 4

\* hilo!: 2^32, the weight of the high half of a split field.
HI_WEIGHT == 4096

\* bs!: 2 ^ (10 + s_log_block_size).
bs(log) == MIN_BLOCK_SIZE * pow2(log)

hilo(hi, lo) == hi * HI_WEIGHT + lo

alloc_desc_size(sz) ==
    IF sz > GROUP_DESC_STRUCT_SIZE THEN sz ELSE GROUP_DESC_STRUCT_SIZE

alloc_inode_size(sz) ==
    IF sz > INODE_STRUCT_SIZE THEN sz ELSE INODE_STRUCT_SIZE

(***************************************************************************)
(* filesys/e2fs: flag words.  A word is the set of the positions of its    *)
(* set bits: `self.0 & 0x4 != 0` is 2 \in w, `(self.0 >> 3) << 3` is the   *)
(* bits of w at positions 3 and above.                                     *)
(***************************************************************************)

bits_from(w, k) == {b \in w : b >= k}

\* The has_* queries of the flag words of mod.rs: the bits each one tests.
flag_bits(wrapper) ==
    CASE wrapper = "BgFlags" ->
           [inode_uninit |-> {0}, block_uninit |-> {1}, inode_zeroed |-> {2}]
      [] wrapper = "State" ->
           [valid |-> {0}, error |-> {1}, orphan |-> {2}, fc_replay |-> {5}]
      [] wrapper = "CompatFeatures" ->
           [dir_prealloc |-> {0}, imagic_inodes |-> {1}, has_journal |-> {2},
            ext_attr |-> {3}, resize_inode |-> {4}, dir_index |-> {5},
            lazy_bg |-> {6}, exclude_inode |-> {7}, exclude_bitmap |-> {8},
            sparse_super2 |-> {9}, fast_commit |-> {10}, stable_inodes |-> {11},
            orphan_file |-> {12}]
      [] wrapper = "IncompatFeatures" ->
           [compression |-> {0}, filetype |-> {1}, recover |-> {2},
            journal_dev |-> {3}, meta_bg |-> {4}, extents |-> {6}, 64bit |-> {7},
            mmp |-> {8}, flex_bg |-> {9}, ea_inode |-> {10}, dirdata |-> {12},
            csum_seed |-> {13}, largedir |-> {14}, inline_data |-> {15},
            encrypt |-> {16}, casefold |-> {17}]
      [] wrapper = "RoCompatFeatures" ->
           [sparse_super |-> {0}, large_file |-> {1}, btree_dir |-> {2},
            huge_file |-> {3}, gdt_csum |-> {4}, dir_nlink |-> {5},
            extra_isize |-> {6}, has_snapshot |-> {7}, quota |-> {8},
            bigalloc |-> {9}, metadata_csum |-> {10}, replica |-> {11},
            readonly |-> {12}, project |-> {13}, shared_blocks |-> {14},
            verity |-> {15}, orphan_present |-> {16}]
      [] wrapper = "DefMountOpts" ->
           [debug |-> {0}, bsdgroups |-> {1}, xattr_user |-> {2}, acl |-> {3},
            uid16 |-> {4}, jmode_data |-> {5}, jmode_ordered |-> {6},
            jmode |-> {5, 6}, jmode_wback |-> {5, 6}, nobarrier |-> {8},
            block_validity |-> {9}, discard |-> {10}, nodealloc |-> {11}]
      [] wrapper = "Flags" ->
           [signed_hash |-> {0}, unsigned_hash |-> {1}, test |-> {2},
            is_snapshot |-> {4}, fix_snapshot |-> {5}, fix_exclude |-> {6}]

\* wrapper { 0: w }.has_<flag>().
has(wrapper, w, flag) == flag_bits(wrapper)[flag] \subseteq w

\* get_unknown with only its `(self.0 >> k) << k` term.
get_unknown_high_only(wrapper, w) ==
    CASE wrapper = "BgFlags"          -> bits_from(w, 3)
      [] wrapper = "State"            -> bits_from(w, 6)
      [] wrapper = "CompatFeatures"   -> bits_from(w, 13)
      [] wrapper = "IncompatFeatures" -> bits_from(w, 18)
      [] wrapper = "RoCompatFeatures" -> bits_from(w, 17)
      [] wrapper = "DefMountOpts"     -> bits_from(w, 14)
      [] wrapper = "Flags"            -> bits_from(w, 7)

\* wrapper { 0: w }.get_unknown().
get_unknown(wrapper, w) ==
    CASE wrapper = "BgFlags"          -> bits_from(w, 3)
      [] wrapper = "State"            -> bits_from(w, 6) \cup (w \cap {3}) \cup (w \cap {4})
      [] wrapper = "CompatFeatures"   -> bits_from(w, 13)
      [] wrapper = "IncompatFeatures" -> bits_from(w, 18) \cup (w \cap {5}) \cup (w \cap {11})
      [] wrapper = "RoCompatFeatures" -> bits_from(w, 17)
      [] wrapper = "DefMountOpts"     -> bits_from(w, 14) \cup (w \cap {7})
      [] wrapper = "Flags"            -> bits_from(w, 7) \cup (w \cap {3})

has_unknown(wrapper, w) == get_unknown(wrapper, w) # {}

\* The has_* queries of the flag words of inode.rs; has_ifblk, has_iflnk and
\* has_ifsock are conjunctions of two queries.
inode_flag_bits(wrapper) ==
    CASE wrapper = "IFlags" ->
           [secrm |-> {0}, unrm |-> {1}, compr |-> {2}, sync |-> {3},
            immutable |-> {4}, append |-> {5}, nodump |-> {6}, noatime |-> {7},
            dirty |-> {8}, comprblk |-> {9}, nocompr |-> {10}, encrypt |-> {11},
            index |-> {12}, imagic |-> {13}, journal_data |-> {14}, notail |-> {15},
            dirsync |-> {16}, topdir |-> {17}, huge_file |-> {18}, extents |-> {19},
            verity |-> {20}, ea_inode |-> {21}, eofblocks |-> {22}, snapfile |-> {24},
            snapfile_deleted |-> {26}, snapfile_shrunk |-> {27},
            inline_data |-> {28}, projinherit |-> {29}, reserved |-> {31}]
      [] wrapper = "IMode" ->
           [ixoth |-> {0}, iwoth |-> {1}, iroth |-> {2}, ixgrp |-> {3},
            iwgrp |-> {4}, irgrp |-> {5}, ixusr |-> {6}, iwusr |-> {7},
            irusr |-> {8}, isvtx |-> {9}, isgid |-> {10}, isuid |-> {11},
            ififo |-> {12}, ifchr |-> {13}, ifdir |-> {14}, ifblk |-> {13, 14},
            ifreg |-> {15}, iflnk |-> {13, 15}, ifsock |-> {14, 15}]

inode_has(wrapper, w, flag) == inode_flag_bits(wrapper)[flag] \subseteq w

inode_get_unknown(wrapper, w) ==
    CASE wrapper = "IFlags" -> (w \cap {23}) \cup (w \cap {25}) \cup (w \cap {30})
      [] wrapper = "IMode"  -> {}

inode_has_unknown(wrapper, w) == inode_get_unknown(wrapper, w) # {}

(***************************************************************************)
(* filesys/e2fs/mod.rs: the superblock checks.                             *)
(***************************************************************************)

NoOptions == [fs_creator |-> "None", dyn_cfg |-> FALSE, compat |-> {},
              incompat |-> {}, ro_compat |-> {}, journal_cfg |-> FALSE,
              bit64_cfg |-> FALSE]

Rejected == [err |-> TRUE, opts |-> NoOptions]

error_policy_of(s_errors) ==
    CASE s_errors = 0 -> "Null"
      [] s_errors = 1 -> "Continue"
      [] s_errors = 2 -> "ReadOnly"
      [] s_errors = 3 -> "Panic"
      [] OTHER -> "None"

fs_creator_of(s_creator_os) ==
    CASE s_creator_os = 0 -> "Linux"
      [] s_creator_os = 1 -> "Hurd"
      [] s_creator_os = 2 -> "Masix"
      [] s_creator_os = 3 -> "FreeBSD"
      [] s_creator_os = 4 -> "Linux"
      [] OTHER -> "None"

revision_of(s_rev_level) ==
    CASE s_rev_level = 0 -> "GoodOld"
      [] s_rev_level = 1 -> "Dynamic"
      [] OTHER -> "None"

\* The dynamic-revision part with only its three has_unknown checks.
dynamic_rejected_unknown_only(sb, c) ==
    \/ has_unknown("CompatFeatures", sb.s_feature_compat)
    \/ has_unknown("IncompatFeatures", sb.s_feature_incompat)
    \/ has_unknown("RoCompatFeatures", sb.s_feature_ro_compat)

\* The checks of the `--- dynamic revision level only ---` part.
dynamic_rejected(sb, c) ==
    LET compat    == sb.s_feature_compat
        incompat  == sb.s_feature_incompat
        ro_compat == sb.s_feature_ro_compat
    IN  \/ has_unknown("CompatFeatures", compat)
        \/ has("CompatFeatures", compat, "exclude_inode")
        \/ has("CompatFeatures", compat, "exclude_bitmap")
        \/ has_unknown("IncompatFeatures", incompat)
        \/ (has("IncompatFeatures", incompat, "recover") /\ ~c.ignore_recovery)
        \/ has("IncompatFeatures", incompat, "journal_dev")
        \/ has("IncompatFeatures", incompat, "meta_bg")
        \/ has("IncompatFeatures", incompat, "dirdata")
        \/ has("IncompatFeatures", incompat, "encrypt")
        \/ has_unknown("RoCompatFeatures", ro_compat)
        \/ (has("RoCompatFeatures", ro_compat, "readonly") /\ ~c.ignore_readonly)
        \/ has("RoCompatFeatures", ro_compat, "shared_blocks")
        \/ /\ has("RoCompatFeatures", ro_compat, "metadata_csum")
           /\ has("RoCompatFeatures", ro_compat, "gdt_csum")
        \/ has("RoCompatFeatures", ro_compat, "gdt_csum")

\* The checks of the journalling and 64-bit parts.
journal_rejected(sb) ==
    /\ has("CompatFeatures", sb.s_feature_compat, "has_journal")
    /\ \/ sb.s_def_hash_version > 6
       \/ has_unknown("DefMountOpts", sb.s_default_mount_opts)

bit64_rejected(sb) ==
    /\ has("IncompatFeatures", sb.s_feature_incompat, "64bit")
    /\ \/ has_unknown("Flags", sb.s_flags)
       \/ has("Flags", sb.s_flags, "fix_snapshot")
       \/ has("Flags", sb.s_flags, "fix_exclude")
       \/ /\ has("IncompatFeatures", sb.s_feature_incompat, "encrypt")
          /\ \E i \in 1..Len(sb.s_encrypt_algos) :
                 sb.s_encrypt_algos[i] = 0 \/ sb.s_encrypt_algos[i] > 4

get_and_check_fs_options(sb, c) ==
    LET dynamic == revision_of(sb.s_rev_level) = "Dynamic"
    IN  IF \/ has_unknown("State", sb.s_state)
           \/ has("State", sb.s_state, "error")
           \/ has("State", sb.s_state, "fc_replay")
           \/ error_policy_of(sb.s_errors) \in {"None", "Null"}
           \/ fs_creator_of(sb.s_creator_os) = "None"
           \/ revision_of(sb.s_rev_level) = "None"
           \/ (dynamic /\ dynamic_rejected(sb, c))
           \/ journal_rejected(sb)
           \/ bit64_rejected(sb)
        THEN Rejected
        ELSE [err  |-> FALSE,
              opts |-> [fs_creator  |-> fs_creator_of(sb.s_creator_os),
                        dyn_cfg     |-> dynamic,
                        compat      |-> IF dynamic THEN sb.s_feature_compat ELSE {},
                        incompat    |-> IF dynamic THEN sb.s_feature_incompat ELSE {},
                        ro_compat   |-> IF dynamic THEN sb.s_feature_ro_compat ELSE {},
                        journal_cfg |-> has("CompatFeatures", sb.s_feature_compat, "has_journal"),
                        bit64_cfg   |-> has("IncompatFeatures", sb.s_feature_incompat, "64bit")]]

start_of_bg(bg_num, f) ==
    f.sb.s_first_data_block * bs(f.sb.s_log_block_size) + bg_num * f.bg_size

start_of_first_gdt(sb) ==
    IF bs(sb.s_log_block_size) = MIN_BLOCK_SIZE
    THEN BOOT_AND_SB
    ELSE bs(sb.s_log_block_size)

\* Whether read_exact of len bytes at offset off succeeds on the drive.
read_exact_ok(im, off, len) == off + len <= im.drive_size

\* verify_desc_csum: the stored checksum of a descriptor is the one computed
\* for the group number desc.csum_of (-1: for no group).  Its outcome is
\* "true", "false" or "err".
verify_desc_csum(desc, bg_num, f) ==
    IF ~f.opts.dyn_cfg THEN "err"
    ELSE IF has("RoCompatFeatures", f.opts.ro_compat, "metadata_csum")
         THEN (IF f.csum_seed = "None" THEN "panic"
               ELSE IF desc.csum_of = bg_num THEN "true" ELSE "false")
         ELSE "err"

fetch_regular_bg_descriptor(bg_num, f) == f.desc_table[bg_num + 1]

(***************************************************************************)
(* filesys/e2fs/inode.rs and extent.rs: the walk of one inode.             *)
(*                                                                         *)
(* A walk is the sequence `ups` of the map.update calls made so far, each  *)
(* <<start, size, status>>, how it stands: "ok" (running, or returned Ok), *)
(* "err" (returned Err), "panic" or "overflow" (the recursion did not      *)
(* end), and the block_head of the legacy walk.  Every procedure takes the *)
(* walk so far and gives the walk after it; a walk that is not "ok" is     *)
(* handed on as it is, as `?` does.                                        *)
(***************************************************************************)

Walk(ups, end, hd) == [ups |-> ups, end |-> end, head |-> hd]

NoWalk == Walk(<<>>, "ok", 0)

\* The walk w after an update that frees the range.
marked_free(w, start, sz) == Walk(Append(w.ups, <<start, sz, Free>>), w.end, w.head)

\* The walk w after one more update, and w ended with `end`.
marked(w, start, sz) == Walk(Append(w.ups, <<start, sz, Used>>), w.end, w.head)
ended(w, end) == Walk(w.ups, end, w.head)

\* The longest chain of nested calls followed before the walk is declared
\* non-terminating, and the most path descents of one iteration.
MaxNest == 4
MaxDescents == 24

\* get_block_count; -1 stands for the failed assert!.
get_block_count(inode, f) ==
    LET b       == bs(f.sb.s_log_block_size)
        blocks0 == IF /\ f.opts.dyn_cfg
                      /\ has("RoCompatFeatures", f.opts.ro_compat, "huge_file")
                      /\ f.opts.fs_creator \notin {"Hurd", "Masix"}
                   THEN hilo(inode.l_i_blocks_high, inode.i_blocks_lo)
                   ELSE inode.i_blocks_lo
        blocks  == blocks0 * (IF inode_has("IFlags", inode.i_flags, "huge_file") THEN b ELSE SECTOR)
    IN  IF blocks % b # 0 THEN -1 ELSE blocks \div b

\* The block of pointers read from the drive at a block number.
ptrs_at(im, block) ==
    IF block \in DOMAIN im.ptr_blocks
    THEN im.ptr_blocks[block]
    ELSE [i \in 1..(bs(im.sb.s_log_block_size) \div PTR_SIZE) |-> 0]

\* The walk after the data pointer `ptr` met at block_head w.head: a null
\* entry is passed over, any other is marked, clipped to the file size, and
\* advances block_head.
data_pointer(w, ptr, b, file_size) ==
    IF ptr * b = 0 THEN w
    ELSE Walk(Append(w.ups, <<ptr * b,
                              IF w.head * b + b > file_size
                              THEN file_size - w.head * b
                              ELSE b,
                              Used>>),
              w.end, w.head + 1)

\* `for i in 0..12` of scan_regular_iblock, from iteration i on.
RECURSIVE scan_direct(_, _, _, _, _, _)
scan_direct(inode, blocks, b, file_size, i, w) ==
    IF i >= DIRECT_BLOCKS \/ w.head >= blocks \/ w.head * b >= file_size
    THEN w
    ELSE scan_direct(inode, blocks, b, file_size, i + 1,
                     data_pointer(w, inode.i_block[i + 1], b, file_size))

\* `for i in 0..entries_in_a_block` of scan_indirect_block.
RECURSIVE indirect_entries(_, _, _, _, _, _)
indirect_entries(ptrs, max_blocks, b, file_size, i, w) ==
    IF i >= b \div PTR_SIZE \/ w.head >= max_blocks \/ w.head * b >= file_size
    THEN w
    ELSE indirect_entries(ptrs, max_blocks, b, file_size, i + 1,
                          data_pointer(w, ptrs[i + 1], b, file_size))

\* scan_indirect_block with the block of the table itself marked.
scan_indirect_block_marking_table(im, inode, f, w, block) ==
    IF w.end # "ok" \/ block = 0 THEN w
    ELSE IF ~read_exact_ok(im, block * bs(f.sb.s_log_block_size),
                           bs(f.sb.s_log_block_size))
    THEN ended(w, "err")
    ELSE indirect_entries(ptrs_at(im, block), get_block_count(inode, f),
                          bs(f.sb.s_log_block_size),
                          hilo(inode.i_size_high, inode.i_size_lo), 0,
                          marked(w, block * bs(f.sb.s_log_block_size),
                                 bs(f.sb.s_log_block_size)))

scan_indirect_block(im, inode, f, w, block) ==
    IF w.end # "ok" \/ block = 0 THEN w
    ELSE IF ~read_exact_ok(im, block * bs(f.sb.s_log_block_size),
                           bs(f.sb.s_log_block_size))
    THEN ended(w, "err")
    ELSE indirect_entries(ptrs_at(im, block), get_block_count(inode, f),
                          bs(f.sb.s_log_block_size),
                          hilo(inode.i_size_high, inode.i_size_lo), 0, w)

\* `for i in 0..entries_in_a_block` of scan_double_indirect_block.
RECURSIVE double_entries(_, _, _, _, _, _)
double_entries(im, inode, f, ptrs, i, w) ==
    IF \/ w.end # "ok"
       \/ i >= bs(f.sb.s_log_block_size) \div PTR_SIZE
       \/ w.head >= get_block_count(inode, f)
    THEN w
    ELSE double_entries(im, inode, f, ptrs, i + 1,
                        scan_indirect_block(im, inode, f, w, ptrs[i + 1]))

scan_double_indirect_block(im, inode, f, w, block) ==
    IF w.end # "ok" \/ block = 0 THEN w
    ELSE IF ~read_exact_ok(im, block * bs(f.sb.s_log_block_size),
                           bs(f.sb.s_log_block_size))
    THEN ended(w, "err")
    ELSE double_entries(im, inode, f, ptrs_at(im, block), 0, w)

RECURSIVE triple_entries(_, _, _, _, _, _)
triple_entries(im, inode, f, ptrs, i, w) ==
    IF \/ w.end # "ok"
       \/ i >= bs(f.sb.s_log_block_size) \div PTR_SIZE
       \/ w.head >= get_block_count(inode, f)
    THEN w
    ELSE triple_entries(im, inode, f, ptrs, i + 1,
                        scan_double_indirect_block(im, inode, f, w, ptrs[i + 1]))

scan_triple_indirect_block(im, inode, f, w, block) ==
    IF w.end # "ok" \/ block = 0 THEN w
    ELSE IF ~read_exact_ok(im, block * bs(f.sb.s_log_block_size),
                           bs(f.sb.s_log_block_size))
    THEN ended(w, "err")
    ELSE triple_entries(im, inode, f, ptrs_at(im, block), 0, w)

\* The else branch of scan_regular_iblock: the block map.
scan_legacy(im, inode, f, w) ==
    scan_triple_indirect_block(im, inode, f,
        scan_double_indirect_block(im, inode, f,
            scan_indirect_block(im, inode, f,
                scan_direct(inode, get_block_count(inode, f),
                            bs(f.sb.s_log_block_size),
                            hilo(inode.i_size_high, inode.i_size_lo), 0,
                            Walk(w.ups, w.end, 0)),
                inode.i_block[13]),
            inode.i_block[14]),
        inode.i_block[15])

(***************************************************************************)
(* filesys/e2fs/extent.rs.  A raw node is [eh_magic, eh_entries, eh_depth, *)
(* slots]: the header fields and the entry slots that fit in the buffer    *)
(* after the header; an entry is [block, len, start] (ee_block or          *)
(* ei_block, ee_len, and the hilo! of the start or leaf fields).           *)
(***************************************************************************)

ZeroEntry == [block |-> 0, len |-> 0, start |-> 0]

\* How many entries fit in a node block between the header and the tail.
block_slots(log) ==
    (bs(log) - EXTENT_HEADER_SIZE - EXTENT_TAIL_SIZE) \div EXTENT_SIZE

\* The raw node read from the drive at a block number.
node_at(im, block) ==
    IF block \in DOMAIN im.ext_blocks
    THEN im.ext_blocks[block]
    ELSE [eh_magic |-> 0, eh_entries |-> 0, eh_depth |-> 0,
          slots |-> [i \in 1..block_slots(im.sb.s_log_block_size) |-> ZeroEntry]]

\* scan_extent_block: marks the header, entries and tail of a node block, and
\* walks the blocks its entries name.  `nest` counts the nested calls.
RECURSIVE scan_extent_block(_, _, _, _, _)
RECURSIVE scan_extent_entries(_, _, _, _, _, _)
scan_extent_entries(im, f, raw, i, nest, w) ==
    IF w.end # "ok" \/ i >= raw.eh_entries THEN w
    ELSE IF i >= Len(raw.slots) THEN ended(w, "err")
    ELSE scan_extent_entries(im, f, raw, i + 1, nest,
             scan_extent_block(im, f, raw.slots[i + 1].start, nest + 1, w))

scan_extent_block(im, f, block, nest, w) ==
    IF nest > MaxNest THEN ended(w, "overflow")
    ELSE IF ~read_exact_ok(im, block * bs(f.sb.s_log_block_size),
                           bs(f.sb.s_log_block_size))
    THEN ended(w, "err")
    ELSE scan_extent_entries(im, f,
             [node_at(im, block) EXCEPT
                 !.eh_entries = IF node_at(im, block).eh_depth = 0 THEN 0 ELSE @],
             0, nest,
             marked(marked(w, block * bs(f.sb.s_log_block_size),
                           EXTENT_HEADER_SIZE
                               + node_at(im, block).eh_entries * EXTENT_IDX_SIZE),
                    (block + 1) * bs(f.sb.s_log_block_size) - EXTENT_TAIL_SIZE,
                    EXTENT_TAIL_SIZE))

scan_extent_tree(im, inode, f, w) ==
    IF inode.i_root.eh_depth = 0 THEN w
    ELSE scan_extent_entries(im, f, inode.i_root, 0, 0, w)

\* Node::from_raw: the parsed node, or an error.
from_raw(raw) ==
    IF raw.eh_magic # EXT_MAGIC \/ raw.eh_entries > Len(raw.slots)
    THEN [end |-> "err", node |-> <<>>]
    ELSE [end  |-> "ok",
          node |-> [eh_entries |-> raw.eh_entries,
                    eh_depth   |-> raw.eh_depth,
                    kind       |-> IF raw.eh_depth = 0 THEN "Extents" ELSE "Indexes",
                    entries    |-> SubSeq(raw.slots, 1, raw.eh_entries),
                    subnodes   |-> <<>>,
                    populated  |-> FALSE]]

\* Node::populate_subnodes.  A node under construction is [end, node]; the
\* loop over the indexes runs from index i on, and pushes the subnode read
\* for each.
RECURSIVE populate_subnodes(_, _, _, _)
RECURSIVE populate_from(_, _, _, _, _)

pushed(t, sub) ==
    IF sub.end # "ok" THEN [end |-> sub.end, node |-> t.node]
    ELSE [end |-> "ok", node |-> [t.node EXCEPT !.subnodes = Append(@, sub.node)]]

read_subnode(im, f, block, nest) ==
    IF ~read_exact_ok(im, block * bs(f.sb.s_log_block_size), bs(f.sb.s_log_block_size))
    THEN [end |-> "err", node |-> <<>>]
    ELSE populate_subnodes(im, f, from_raw(node_at(im, block)), nest + 1)

populate_from(im, f, t, i, nest) ==
    IF t.end # "ok" \/ i >= Len(t.node.entries) THEN t
    ELSE populate_from(im, f,
                       pushed(t, read_subnode(im, f, t.node.entries[i + 1].start, nest)),
                       i + 1, nest)

populate_subnodes(im, f, t, nest) ==
    IF t.end # "ok" THEN t
    ELSE IF t.node.kind # "Indexes" THEN t
    ELSE IF nest > MaxNest THEN [end |-> "overflow", node |-> t.node]
    ELSE populate_from(im, f, [end |-> "ok",
                               node |-> [t.node EXCEPT !.populated = TRUE]], 0, nest)

\* ExtentTree::new.
ExtentTree_new(im, inode, f) == populate_subnodes(im, f, from_raw(inode.i_root), 0)

\* ExtentTreeIterator::new: the index vector (position k is indices[k + 1]).
ExtentTreeIterator_new(tree) == [k \in 1..(tree.eh_depth + 1) |-> 0]

Panic(indices) == [res |-> "Panic", indices |-> indices, item |-> ZeroEntry]

\* at_leaf without `self.indices[cur_node_i] = 0` on a bad path.
at_leaf_keeping_index(cur_node, cur_node_i, indices) ==
    IF cur_node.populated \/ cur_node.kind # "Extents" \/ cur_node_i >= Len(indices)
    THEN Panic(indices)
    ELSE IF indices[cur_node_i + 1] >= Len(cur_node.entries) /\ cur_node_i = 0
    THEN Panic(indices)
    ELSE IF indices[cur_node_i + 1] >= Len(cur_node.entries)
    THEN [res     |-> "BadPath",
          indices |-> [indices EXCEPT ![cur_node_i] = @ + 1],
          item    |-> ZeroEntry]
    ELSE [res     |-> "Found",
          indices |-> [indices EXCEPT ![cur_node_i + 1] = @ + 1],
          item    |-> cur_node.entries[indices[cur_node_i + 1] + 1]]

\* The end of try_find_element, at the node the descent stopped at.
at_leaf(cur_node, cur_node_i, indices) ==
    IF cur_node.populated \/ cur_node.kind # "Extents" \/ cur_node_i >= Len(indices)
    THEN Panic(indices)
    ELSE IF indices[cur_node_i + 1] >= Len(cur_node.entries) /\ cur_node_i = 0
    THEN Panic(indices)
    ELSE IF indices[cur_node_i + 1] >= Len(cur_node.entries)
    THEN [res     |-> "BadPath",
          indices |-> [k \in 1..Len(indices) |->
                          IF k = cur_node_i THEN indices[k] + 1
                          ELSE IF k = cur_node_i + 1 THEN 0
                          ELSE indices[k]],
          item    |-> ZeroEntry]
    ELSE [res     |-> "Found",
          indices |-> [indices EXCEPT ![cur_node_i + 1] = @ + 1],
          item    |-> cur_node.entries[indices[cur_node_i + 1] + 1]]

\* The `while cur_node.header.eh_depth > 0` loop of try_find_element.  "When
\* the path becomes invalid, the invalid index is set to 0 and the previous
\* index is incremented"; at the root there is no previous index.
RECURSIVE descend(_, _, _)
descend(cur_node, cur_node_i, indices) ==
    IF cur_node.eh_depth = 0 THEN at_leaf(cur_node, cur_node_i, indices)
    ELSE IF cur_node_i >= Len(indices) \/ ~cur_node.populated THEN Panic(indices)
    ELSE IF indices[cur_node_i + 1] >= Len(cur_node.subnodes) /\ cur_node_i = 0
    THEN Panic(indices)
    ELSE IF indices[cur_node_i + 1] >= Len(cur_node.subnodes)
    THEN [res     |-> "BadPath",
          indices |-> [k \in 1..Len(indices) |->
                          IF k = cur_node_i THEN indices[k] + 1
                          ELSE IF k > cur_node_i THEN 0
                          ELSE indices[k]],
          item    |-> ZeroEntry]
    ELSE descend(cur_node.subnodes[indices[cur_node_i + 1] + 1], cur_node_i + 1,
                 indices)

\* try_find_element without the test for the end of the root's entries.
try_find_element_without_end(tree, indices) == descend(tree, 0, indices)

try_find_element(tree, indices) ==
    IF indices[1] >= tree.eh_entries
    THEN [res |-> "End", indices |-> indices, item |-> ZeroEntry]
    ELSE descend(tree, 0, indices)

\* The update for one extent without the clip to the file size.
extent_marked_unclipped(w, e, b, file_size) ==
    IF e.block * b >= file_size THEN w
    ELSE marked(w, e.start * b, e.len * b)

\* The update made for one extent (none when it starts past the file size).
extent_marked(w, e, b, file_size) ==
    IF e.block * b >= file_size THEN w
    ELSE marked(w, e.start * b,
                IF e.block * b + e.len * b > file_size
                THEN file_size - e.block * b
                ELSE e.len * b)

\* The `for e in extent_iterator` loop: next is called until it returns None;
\* r is the result of the last try_find_element.
RECURSIVE iterate(_, _, _, _, _, _)
iterate(tree, r, b, file_size, fuel, w) ==
    IF r.res = "End" THEN w
    ELSE IF r.res = "Panic" THEN ended(w, "panic")
    ELSE IF fuel = 0 THEN ended(w, "overflow")
    ELSE iterate(tree, try_find_element(tree, r.indices), b, file_size, fuel - 1,
                 IF r.res = "Found" THEN extent_marked(w, r.item, b, file_size) ELSE w)

\* The loop over the tree that ExtentTree::new returned.
scan_extent_data(t, b, file_size, w) ==
    IF w.end # "ok" THEN w
    ELSE IF t.end # "ok" THEN ended(w, t.end)
    ELSE iterate(t.node, try_find_element(t.node, ExtentTreeIterator_new(t.node)),
                 b, file_size, MaxDescents, w)

\* The extents branch of scan_regular_iblock.
scan_extents(im, inode, f, w) ==
    scan_extent_data(ExtentTree_new(im, inode, f), bs(f.sb.s_log_block_size),
                     hilo(inode.i_size_high, inode.i_size_lo), scan_extent_tree(im, inode, f, w))

(***************************************************************************)
(* filesys/e2fs/inode.rs: scan_inode.                                      *)
(***************************************************************************)

ZeroInode == [i_mode |-> {}, i_flags |-> {}, i_size_lo |-> 0, i_size_high |-> 0,
              i_blocks_lo |-> 0, l_i_blocks_high |-> 0,
              i_block |-> [k \in 1..N_BLOCKS |-> 0],
              i_root |-> [eh_magic |-> 0, eh_entries |-> 0, eh_depth |-> 0,
                          slots |-> [k \in 1..ROOT_SLOTS |-> ZeroEntry]]]

\* The flags scan_inode rejects before it looks at the mode.
rejected_flags(i_flags) ==
    \/ inode_has_unknown("IFlags", i_flags)
    \/ inode_has("IFlags", i_flags, "encrypt")
    \/ inode_has("IFlags", i_flags, "imagic")
    \/ inode_has("IFlags", i_flags, "snapfile")
    \/ inode_has("IFlags", i_flags, "snapfile_shrunk")
    \/ inode_has("IFlags", i_flags, "snapfile_deleted")
    \/ inode_has("IFlags", i_flags, "compr")
    \/ inode_has("IFlags", i_flags, "comprblk")

\* The inode_type of scan_inode; "Skipped" and "Invalid" are its two last
\* branches.
inode_type_of(inode, idx, bg_num, f) ==
    IF bg_num = 0 /\ idx + 1 = JOURNAL_INO THEN "Journal"
    ELSE IF inode_has("IFlags", inode.i_flags, "ea_inode") THEN "Ea"
    ELSE IF inode_has("IMode", inode.i_mode, "ifsock") THEN "Socket"
    ELSE IF inode_has("IMode", inode.i_mode, "iflnk") THEN "SymLink"
    ELSE IF inode_has("IMode", inode.i_mode, "ifblk") THEN "Block"
    ELSE IF inode_has("IMode", inode.i_mode, "ifreg") THEN "Regular"
    ELSE IF inode_has("IMode", inode.i_mode, "ifdir") THEN "Directory"
    ELSE IF inode_has("IMode", inode.i_mode, "ifchr") THEN "Character"
    ELSE IF inode_has("IMode", inode.i_mode, "ififo") THEN "Fifo"
    ELSE IF bg_num = 0 /\ inode.i_mode = {} /\ idx + 1 < f.sb.s_first_ino THEN "Skipped"
    ELSE "Invalid"

scan_regular_iblock(im, inode, f, w) ==
    IF inode_has("IFlags", inode.i_flags, "inline_data") THEN w
    ELSE IF get_block_count(inode, f) < 0 THEN ended(w, "panic")
    ELSE IF get_block_count(inode, f) = 0 THEN w
    ELSE IF inode_has("IFlags", inode.i_flags, "extents") THEN scan_extents(im, inode, f, w)
    ELSE scan_legacy(im, inode, f, w)

scan_dir_iblock(im, inode, f, w) == w

scan_symlink_iblock(im, inode, f, w) == scan_regular_iblock(im, inode, f, w)

scan_journal_iblock(im, inode, f, w) == w

scan_ea_iblock(im, inode, f, w) == w

\* The `match inode_type` of scan_inode.
scan_iblock(im, inode, inode_type, f, w) ==
    CASE inode_type = "Journal"   -> scan_journal_iblock(im, inode, f, w)
      [] inode_type = "Ea"        -> scan_ea_iblock(im, inode, f, w)
      [] inode_type = "Directory" -> scan_dir_iblock(im, inode, f, w)
      [] OTHER                    -> scan_symlink_iblock(im, inode, f, w)

\* The check that follows the match.
verity_checked(inode, w) ==
    IF w.end = "ok" /\ inode_has("IFlags", inode.i_flags, "verity") THEN ended(w, "err") ELSE w

\* scan_inode, from the check of the inode's flags on.
scan_parsed_inode(im, inode, inode_type, f, w) ==
    IF rejected_flags(inode.i_flags) THEN ended(w, "err")
    ELSE IF inode_type = "Skipped" THEN w
    ELSE IF inode_type = "Invalid" THEN ended(w, "err")
    ELSE verity_checked(inode, scan_iblock(im, inode, inode_type, f, w))

scan_inode(im, idx, bg_num, itable, f, w) ==
    scan_parsed_inode(im, itable[idx + 1],
                      inode_type_of(itable[idx + 1], idx, bg_num, f), f, w)

(***************************************************************************)
(* filesys/e2fs/mod.rs: scan_regular_bg.                                   *)
(***************************************************************************)

ZeroDesc == [bg_block_bitmap_lo |-> 0, bg_block_bitmap_hi |-> 0,
             bg_inode_bitmap_lo |-> 0, bg_inode_bitmap_hi |-> 0,
             bg_inode_table_lo |-> 0, bg_inode_table_hi |-> 0,
             bg_flags |-> {}, csum_of |-> -1]

\* What the drive holds at an offset, read as a descriptor table, as a bitmap
\* block and as an inode table.
gdt_at(im, off, n) ==
    IF off \in DOMAIN im.gdts THEN im.gdts[off] ELSE [k \in 1..n |-> ZeroDesc]

bitmap_at(im, off) ==
    IF off \in DOMAIN im.bitmaps
    THEN im.bitmaps[off]
    ELSE [k \in 1..bs(im.sb.s_log_block_size) |-> 0]

itable_at(im, off) ==
    IF off \in DOMAIN im.itables
    THEN im.itables[off]
    ELSE [k \in 1..im.sb.s_inodes_per_group |-> ZeroInode]

has_csum_of(f) ==
    f.opts.dyn_cfg /\ (\/ has("RoCompatFeatures", f.opts.ro_compat, "metadata_csum")
                       \/ has("RoCompatFeatures", f.opts.ro_compat, "gdt_csum"))

\* skip_super with the sparse_super rule consulted first.
skip_super_of_sparse_first(f, bg_num) ==
    /\ f.opts.dyn_cfg
    /\ IF has("RoCompatFeatures", f.opts.ro_compat, "sparse_super")
       THEN bg_num # 0 /\ bg_num % 3 # 0 /\ bg_num % 5 # 0 /\ bg_num % 7 # 0
       ELSE /\ has("CompatFeatures", f.opts.compat, "sparse_super2")
            /\ bg_num # f.sb.s_backup_bgs[1] /\ bg_num # f.sb.s_backup_bgs[2]

\* "Check if we skip the superblock and gdt."
skip_super_of(f, bg_num) ==
    /\ f.opts.dyn_cfg
    /\ IF has("CompatFeatures", f.opts.compat, "sparse_super2")
       THEN bg_num # f.sb.s_backup_bgs[1] /\ bg_num # f.sb.s_backup_bgs[2]
       ELSE /\ has("RoCompatFeatures", f.opts.ro_compat, "sparse_super")
            /\ bg_num # 0
            /\ bg_num % 3 # 0
            /\ bg_num % 5 # 0
            /\ bg_num % 7 # 0

\* The start of the descriptor table of a group that is not skipped.
gdt_start_of(f, bg_num) ==
    IF bg_num = 0 THEN start_of_first_gdt(f.sb)
    ELSE start_of_bg(bg_num, f) + bs(f.sb.s_log_block_size)

\* The loop over a copy of the table with every slot marked, verified or not.
gdt_copy_entries_unverified(f, gdt, gdt_start, i, w) ==
    marked(w, gdt_start, f.bg_count * f.desc_size)

\* `for i in 0..fs.bg_count` over a group's copy of the descriptor table.
RECURSIVE gdt_copy_entries(_, _, _, _, _)
gdt_copy_entries(f, gdt, gdt_start, i, w) ==
    IF w.end # "ok" \/ i >= f.bg_count THEN w
    ELSE gdt_copy_entries(f, gdt, gdt_start, i + 1,
             IF verify_desc_csum(gdt[i + 1], i, f) \in {"err", "panic"}
             THEN ended(w, verify_desc_csum(gdt[i + 1], i, f))
             ELSE IF verify_desc_csum(gdt[i + 1], i, f) = "true"
             THEN marked(w, gdt_start + i * f.desc_size, f.desc_size)
             ELSE w)

\* "The group descriptors": w already holds the update over the superblock.
scan_gdt_copy(im, f, bg_num, w) ==
    IF ~has_csum_of(f)
    THEN marked(w, gdt_start_of(f, bg_num), f.bg_count * f.desc_size)
    ELSE IF ~read_exact_ok(im, gdt_start_of(f, bg_num),
                           f.bg_count * alloc_desc_size(f.desc_size))
    THEN ended(w, "err")
    ELSE gdt_copy_entries(f, gdt_at(im, gdt_start_of(f, bg_num), f.bg_count),
                          gdt_start_of(f, bg_num), 0, w)

\* The `if !skip_super` block.
scan_super_and_gdt(im, f, bg_num, w) ==
    scan_gdt_copy(im, f, bg_num,
                  IF bg_num = 0 THEN marked(w, 0, BOOT_AND_SB)
                  ELSE marked(w, start_of_bg(bg_num, f), BACKUP_SB))

\* `for i in 0..fs.sb.s_inodes_per_group`.
RECURSIVE scan_inodes(_, _, _, _, _, _, _)
scan_inodes(im, f, bg_num, i_bmp, itable, i, w) ==
    IF w.end # "ok" \/ i >= f.sb.s_inodes_per_group THEN w
    ELSE IF i >= 8 * Len(i_bmp) THEN ended(w, "panic")
    ELSE scan_inodes(im, f, bg_num, i_bmp, itable, i + 1,
                     IF check_bit(i_bmp, i)
                     THEN scan_inode(im, i, bg_num, itable, f, w)
                     ELSE w)

inode_bitmap_block_of(desc, f) ==
    IF f.opts.bit64_cfg THEN hilo(desc.bg_inode_bitmap_hi, desc.bg_inode_bitmap_lo)
    ELSE desc.bg_inode_bitmap_lo

block_bitmap_block_of(desc, f) ==
    IF f.opts.bit64_cfg THEN hilo(desc.bg_block_bitmap_hi, desc.bg_block_bitmap_lo)
    ELSE desc.bg_block_bitmap_lo

inode_table_block_of(desc, f) ==
    IF f.opts.bit64_cfg THEN hilo(desc.bg_inode_table_hi, desc.bg_inode_table_lo)
    ELSE desc.bg_inode_table_lo

\* "Inode bitmap." and "Block bitmap."
bitmaps_marked(desc, f, w) ==
    [w EXCEPT !.ups = @
        \o (IF ~has("BgFlags", desc.bg_flags, "inode_uninit")
            THEN << <<inode_bitmap_block_of(desc, f) * bs(f.sb.s_log_block_size),
                      bs(f.sb.s_log_block_size), Used>> >>
            ELSE <<>>)
        \o (IF ~has("BgFlags", desc.bg_flags, "block_uninit")
            THEN << <<block_bitmap_block_of(desc, f) * bs(f.sb.s_log_block_size),
                      bs(f.sb.s_log_block_size), Used>> >>
            ELSE <<>>)]

\* "Inode table." with the table marked whenever it is in use.
itable_marked_when_in_use(desc, f, w) ==
    IF ~has("BgFlags", desc.bg_flags, "inode_uninit")
    THEN marked(w, inode_table_block_of(desc, f) * bs(f.sb.s_log_block_size),
                f.sb.s_inodes_per_group * f.inode_size)
    ELSE w

\* "Inode table."
itable_marked(desc, f, w) ==
    IF has("BgFlags", desc.bg_flags, "inode_zeroed")
    THEN marked(w, inode_table_block_of(desc, f) * bs(f.sb.s_log_block_size),
                f.sb.s_inodes_per_group * f.inode_size)
    ELSE IF ~has("BgFlags", desc.bg_flags, "inode_uninit") THEN ended(w, "err")
    ELSE w

\* "Processing the inodes."
process_inodes(im, f, bg_num, desc, w) ==
    IF w.end # "ok" \/ has("BgFlags", desc.bg_flags, "inode_uninit") THEN w
    ELSE IF \/ ~read_exact_ok(im, inode_bitmap_block_of(desc, f)
                                      * bs(f.sb.s_log_block_size),
                              bs(f.sb.s_log_block_size))
            \/ ~read_exact_ok(im, inode_table_block_of(desc, f)
                                      * bs(f.sb.s_log_block_size),
                              f.sb.s_inodes_per_group * alloc_inode_size(f.inode_size))
    THEN ended(w, "err")
    ELSE scan_inodes(im, f, bg_num,
                     bitmap_at(im, inode_bitmap_block_of(desc, f)
                                       * bs(f.sb.s_log_block_size)),
                     itable_at(im, inode_table_block_of(desc, f)
                                       * bs(f.sb.s_log_block_size)),
                     0, w)

\* The rest of scan_regular_bg going on when the descriptor's checksum fails.
scan_group_body_unverified(im, f, bg_num, desc, v, w) ==
    IF w.end # "ok" THEN w
    ELSE IF has_csum_of(f) /\ v \in {"err", "panic"} THEN ended(w, v)
    ELSE IF has_unknown("BgFlags", desc.bg_flags) THEN ended(w, "err")
    ELSE process_inodes(im, f, bg_num, desc,
                        itable_marked(desc, f, bitmaps_marked(desc, f, w)))

\* scan_regular_bg from the fetch of the group's descriptor on; v is what
\* verify_desc_csum returned for it.
scan_group_body(im, f, bg_num, desc, v, w) ==
    IF w.end # "ok" THEN w
    ELSE IF has_csum_of(f) /\ v \in {"err", "panic"} THEN ended(w, v)
    ELSE IF has_csum_of(f) /\ v = "false" THEN w
    ELSE IF has_unknown("BgFlags", desc.bg_flags) THEN ended(w, "err")
    ELSE process_inodes(im, f, bg_num, desc,
                        itable_marked(desc, f, bitmaps_marked(desc, f, w)))

scan_regular_bg(im, f, bg_num, w) ==
    scan_group_body(im, f, bg_num, fetch_regular_bg_descriptor(bg_num, f),
                    verify_desc_csum(fetch_regular_bg_descriptor(bg_num, f), bg_num, f),
                    IF skip_super_of(f, bg_num) THEN w
                    ELSE scan_super_and_gdt(im, f, bg_num, w))

\* The map after a sequence of update calls, or the first panic.
RECURSIVE apply_updates(_, _, _)
apply_updates(r, ups, i) ==
    IF r.panic \/ i > Len(ups) THEN r
    ELSE apply_updates(update(r.map, ups[i][1], ups[i][2], ups[i][3]), ups, i + 1)

(***************************************************************************)
(* The drive images scanned: small ext2/3/4 file systems laid out as       *)
(* mke2fs lays them out.  Every group holds, from its first block on: the  *)
(* superblock (copy), the descriptor table (copy), the block bitmap, the   *)
(* inode bitmap, the inode table and ImgDataBlocks data blocks.            *)
(***************************************************************************)

\* The most block groups of an image.
MaxGroups == 7

ImgInodesPerGroup == 16
ImgDataBlocks == 4
ImgFirstIno == 11

img_itable_blocks(log) ==
    (ImgInodesPerGroup * GOOD_OLD_INODE_SIZE + bs(log) - 1) \div bs(log)
img_blocks_per_group(log) == 4 + img_itable_blocks(log) + ImgDataBlocks
img_first_data_block(log) == IF bs(log) = MIN_BLOCK_SIZE THEN 1 ELSE 0
img_group_block(log, g) == img_first_data_block(log) + g * img_blocks_per_group(log)

\* The index, in the table of group 0, of the first ordinary inode.
img_file_idx == ImgFirstIno - 1

\* The k-th data block of group g.
img_data(log, g, k) == img_group_block(log, g) + 4 + img_itable_blocks(log) + k

\* The bytes of a bitmap whose set bits are the members of S.
RECURSIVE byte_of_bits(_, _, _)
byte_of_bits(S, base, j) ==
    IF j > 7 THEN 0
    ELSE (IF base + j \in S THEN pow2(j) ELSE 0) + byte_of_bits(S, base, j + 1)

bytes_of_bits(S, n) == [k \in 1..n |-> byte_of_bits(S, 8 * (k - 1), 0)]

\* The images of a file system that is in order: every feature supported, the
\* inode tables zeroed and in use, every allocated inode well-formed.
ImgConsistent(p) ==
    /\ p.feat \in {"goodold", "plain", "sparse", "sparse2", "sparse2only", "csum",
                  "journal"}
    /\ p.bgf = {2}
    /\ p.scen \notin {"badmode", "badflag", "wild"}

img_superblock(p) ==
    [s_magic             |-> IF p.feat = "blank" THEN 0 ELSE 61267,
     s_log_block_size    |-> p.log,
     s_first_data_block  |-> img_first_data_block(p.log),
     s_blocks_count_lo   |-> img_group_block(p.log, p.groups),
     s_blocks_count_hi   |-> 0,
     s_blocks_per_group  |-> img_blocks_per_group(p.log),
     s_inodes_per_group  |-> ImgInodesPerGroup,
     s_inode_size        |-> GOOD_OLD_INODE_SIZE,
     s_desc_size         |-> 0,
     s_first_ino         |-> ImgFirstIno,
     s_backup_bgs        |-> IF p.groups > 2 THEN <<1, p.groups - 1>>
                             ELSE IF p.groups > 1 THEN <<1, 0>> ELSE <<0, 0>>,
     s_state             |-> IF p.feat = "error" THEN {0, 1} ELSE {0},
     s_errors            |-> 1,
     s_creator_os        |-> 0,
     s_rev_level         |-> IF p.feat = "goodold" THEN 0 ELSE 1,
     s_feature_compat    |-> CASE p.feat \in {"sparse2", "sparse2only"} -> {9}
                               [] p.feat = "journal" -> {2}
                               [] OTHER -> {},
     s_feature_incompat  |-> IF p.feat = "goodold" THEN {} ELSE {1},
     s_feature_ro_compat |-> CASE p.feat \in {"sparse", "sparse2"} -> {0}
                               [] p.feat \in {"csum", "badcsum"} -> {0, 10}
                               [] OTHER -> {},
     s_def_hash_version  |-> 1,
     s_default_mount_opts |-> {2, 3},
     s_flags             |-> {0},
     s_encrypt_algos     |-> <<0, 0, 0, 0>>]

\* The descriptor of group g as stored in the table copy of group `copy`.  In
\* a "badcsum" image the master table holds one descriptor whose checksum is
\* stale: that of group 1, or of group 0 when it is the only group.
img_desc(p, g, copy) ==
    [bg_block_bitmap_lo |-> img_group_block(p.log, g) + 2,
     bg_block_bitmap_hi |-> 0,
     bg_inode_bitmap_lo |-> img_group_block(p.log, g) + 3,
     bg_inode_bitmap_hi |-> 0,
     bg_inode_table_lo  |-> img_group_block(p.log, g) + 4,
     bg_inode_table_hi  |-> 0,
     bg_flags           |-> p.bgf,
     csum_of            |-> IF /\ p.feat = "badcsum" /\ copy = 0
                                /\ g = (IF p.groups > 1 THEN 1 ELSE 0)
                             THEN -1 ELSE g]

img_gdt_offset(p, g) ==
    IF g = 0 THEN start_of_first_gdt(img_superblock(p))
    ELSE (img_group_block(p.log, g) + 1) * bs(p.log)

img_inode(p, mode, flags, sz, nblocks, i_block, i_root) ==
    [i_mode |-> mode, i_flags |-> flags, i_size_lo |-> sz, i_size_high |-> 0,
     i_blocks_lo |-> (nblocks * bs(p.log)) \div SECTOR, l_i_blocks_high |-> 0,
     i_block |-> [k \in 1..N_BLOCKS |-> IF k <= Len(i_block) THEN i_block[k] ELSE 0],
     i_root |-> i_root]

img_root_node(entries, depth, first) ==
    [eh_magic |-> EXT_MAGIC, eh_entries |-> entries, eh_depth |-> depth,
     slots |-> [k \in 1..ROOT_SLOTS |-> IF k = 1 THEN first ELSE ZeroEntry]]

\* The inode at index idx of group 0 (ZeroInode: an unused slot).
img_inode_at(p, idx) ==
    LET b  == bs(p.log)
        d0 == img_data(p.log, 0, 0)
        d1 == img_data(p.log, 0, 1)
        d2 == img_data(p.log, 0, 2)
        noroot == ZeroInode.i_root
        IFDIR  == {14, 8, 7, 6}
        IFREG  == {15, 8, 7}
        IFLNK  == {15, 13, 8, 7, 6}
    IN  CASE idx = 1 ->
               img_inode(p, IFDIR, {}, b, 1, <<d0>>, noroot)
          [] idx = 7 /\ p.scen = "journal" ->
               img_inode(p, IFREG, {}, 2 * b, 2, <<d1, d2>>, noroot)
          [] idx = img_file_idx /\ p.scen = "file" ->
               img_inode(p, IFREG, {}, 2 * b - 1, 2, <<d1, d2>>, noroot)
          [] idx = img_file_idx /\ p.scen = "hole" ->
               img_inode(p, IFREG, {}, 3 * b, 2, <<d1, 0, d2>>, noroot)
          [] idx = img_file_idx /\ p.scen = "sparse" ->
               img_inode(p, IFREG, {}, (DIRECT_BLOCKS + 1) * b, 2,
                         [k \in 1..(DIRECT_BLOCKS + 1) |->
                             IF k = DIRECT_BLOCKS + 1 THEN d1 ELSE 0], noroot)
          [] idx = img_file_idx /\ p.scen = "extent" ->
               img_inode(p, IFREG, {19}, 2 * b, 2, <<>>,
                         img_root_node(1, 0, [block |-> 0, len |-> 2, start |-> d1]))
          [] idx = img_file_idx /\ p.scen = "exttree" ->
               img_inode(p, IFREG, {19}, b, 2, <<>>,
                         img_root_node(1, 1, [block |-> 0, len |-> 0, start |-> d1]))
          [] idx = img_file_idx /\ p.scen = "symlink" ->
               img_inode(p, IFLNK, {}, 3, 0, <<7, 7, 7>>, noroot)
          [] idx = img_file_idx /\ p.scen = "badmode" ->
               img_inode(p, {8, 7}, {}, 0, 0, <<>>, noroot)
          [] idx = img_file_idx /\ p.scen = "badflag" ->
               img_inode(p, IFREG, {23}, 0, 0, <<>>, noroot)
          [] idx = img_file_idx /\ p.scen = "wild" ->
               img_inode(p, IFREG, {}, b, 1,
                         <<img_group_block(p.log, p.groups) + 3>>, noroot)
          [] OTHER -> ZeroInode

\* The image of parameters p.  In group 0 the inode bitmap has the bits of the
\* reserved inodes and, when the scenario has a file, of the first ordinary
\* one; the block bitmap has the bits of the metadata blocks and of the data
\* blocks in use.
MkImage(p) ==
    LET b  == bs(p.log)
        G  == 0..(p.groups - 1)
        d1 == img_data(p.log, 0, 1)
        d2 == img_data(p.log, 0, 2)
        img_allocated ==
            (0..(ImgFirstIno - 2))
            \cup (IF p.scen \in {"root", "journal"} THEN {} ELSE {img_file_idx})
        img_used_data ==
            {4 + img_itable_blocks(p.log) + k :
                k \in IF p.scen \in {"root", "symlink", "badmode", "badflag", "wild"}
                      THEN {0} ELSE {0, 1, 2}}
        img_meta_blocks == 0..(3 + img_itable_blocks(p.log))
    IN  [p          |-> p,
         consistent |-> ImgConsistent(p),
         sb         |-> img_superblock(p),
         drive_size |-> img_group_block(p.log, p.groups) * b,
         gdts       |-> [off \in {img_gdt_offset(p, g) : g \in G} |->
                            LET copy == CHOOSE g \in G : img_gdt_offset(p, g) = off
                            IN  [k \in 1..p.groups |-> img_desc(p, k - 1, copy)]],
         bitmaps    |-> [off \in {(img_group_block(p.log, g) + 2) * b : g \in G}
                                 \cup {(img_group_block(p.log, g) + 3) * b : g \in G} |->
                            IF off = (img_group_block(p.log, 0) + 2) * b
                            THEN bytes_of_bits(img_meta_blocks \cup img_used_data, b)
                            ELSE IF off = (img_group_block(p.log, 0) + 3) * b
                            THEN bytes_of_bits(img_allocated, b)
                            ELSE IF \E g \in G : off = (img_group_block(p.log, g) + 2) * b
                            THEN bytes_of_bits(img_meta_blocks, b)
                            ELSE bytes_of_bits({}, b)],
         itables    |-> [off \in {(img_group_block(p.log, g) + 4) * b : g \in G} |->
                            [k \in 1..ImgInodesPerGroup |->
                                IF off = (img_group_block(p.log, 0) + 4) * b
                                THEN img_inode_at(p, k - 1)
                                ELSE ZeroInode]],
         ptr_blocks |-> IF p.scen = "sparse"
                        THEN [blk \in {d1} |->
                                 [k \in 1..(b \div PTR_SIZE) |-> IF k = 1 THEN d2 ELSE 0]]
                        ELSE <<>>,
         ext_blocks |-> IF p.scen = "exttree"
                        THEN [blk \in {d1} |->
                                 [eh_magic |-> EXT_MAGIC, eh_entries |-> 1, eh_depth |-> 0,
                                  slots |-> [k \in 1..block_slots(p.log) |->
                                               IF k = 1
                                               THEN [block |-> 0, len |-> 1, start |-> d2]
                                               ELSE ZeroEntry]]]
                        ELSE <<>>]

\* The descriptor table of every image fits in one block.
ImgParams ==
    {p \in [log    : {0, 1},
            groups : {1, 2, MaxGroups},
            feat   : {"goodold", "plain", "sparse", "sparse2", "sparse2only", "csum",
                      "badcsum", "journal", "error", "blank"},
            bgf    : {{2}, {}, {0}, {0, 2}, {1, 2}, {2, 3}},
            scen   : {"root", "journal", "file", "hole", "sparse", "extent", "exttree",
                      "symlink", "badmode", "badflag", "wild"}] :
        p.groups * DEFAULT_DESC_SIZE <= bs(p.log)}

(***************************************************************************)
(* filesys/detect.rs and main.rs: the steps of main around the scan.       *)
(***************************************************************************)

\* OpenOptions::write(!cfg.report_only), as the always-writable mutant and as
\* the code has it.
drive_write_access_always(c) == TRUE

drive_write_access(c) == ~c.report_only

detect_e2fs(sb) ==
    /\ sb.s_magic = 61267
    /\ ~(sb.s_state = {} \/ bits_from(sb.s_state, 3) # {})
    /\ ~(sb.s_errors = 0 \/ sb.s_errors > 3)
    /\ ~(sb.s_rev_level > 1)

\* blocks_count and bg_count of process_drive.
blocks_count_of(sb, opts) ==
    IF opts.bit64_cfg
    THEN hilo(sb.s_blocks_count_hi, sb.s_blocks_count_lo)
    ELSE sb.s_blocks_count_lo

bg_count_of(sb, opts) ==
    ((blocks_count_of(sb, opts) - sb.s_first_data_block) \div sb.s_blocks_per_group)
    + (IF (blocks_count_of(sb, opts) - sb.s_first_data_block) % sb.s_blocks_per_group # 0
       THEN 1 ELSE 0)

desc_size_of(sb) == IF sb.s_desc_size = 0 THEN DEFAULT_DESC_SIZE ELSE sb.s_desc_size

\* The Fs that process_drive builds.
make_fs(im, sb, opts) ==
    [sb         |-> sb,
     desc_table |-> gdt_at(im, start_of_first_gdt(sb), bg_count_of(sb, opts)),
     opts       |-> opts,
     bg_count   |-> bg_count_of(sb, opts),
     bg_size    |-> sb.s_blocks_per_group * bs(sb.s_log_block_size),
     desc_size  |-> desc_size_of(sb),
     inode_size |-> IF opts.dyn_cfg THEN sb.s_inode_size ELSE GOOD_OLD_INODE_SIZE,
     csum_seed  |-> IF /\ opts.dyn_cfg
                       /\ \/ has("IncompatFeatures", opts.incompat, "csum_seed")
                          \/ has("RoCompatFeatures", opts.ro_compat, "metadata_csum")
                          \/ has("IncompatFeatures", opts.incompat, "ea_inode")
                    THEN "Some" ELSE "None"]

\* process_drive once get_and_check_fs_options has returned o.
checked_fs(im, sb, o) ==
    IF ~read_exact_ok(im, SB_OFFSET, SB_STRUCT_SIZE) \/ o.err
    THEN [end |-> "err", fs |-> <<>>]
    ELSE IF \/ sb.s_blocks_per_group = 0
            \/ blocks_count_of(sb, o.opts) - sb.s_first_data_block < 0
    THEN [end |-> "panic", fs |-> <<>>]
    ELSE IF ~read_exact_ok(im, start_of_first_gdt(sb),
                           bg_count_of(sb, o.opts) * alloc_desc_size(desc_size_of(sb)))
    THEN [end |-> "err", fs |-> <<>>]
    ELSE [end |-> "ok", fs |-> make_fs(im, sb, o.opts)]

\* process_drive up to the call of scan_free_space: the Fs it builds, or how
\* it failed.
process_drive_fs(im, c) == checked_fs(im, im.sb, get_and_check_fs_options(im.sb, c))

\* The drive is opened; the open may fail.
MainOpen ==
    /\ pc = "open"
    /\ \E ok \in BOOLEAN :
          IF ok
          THEN /\ opened' = IF drive_write_access(cfg) THEN "rw" ELSE "r"
               /\ pc' = "type"
          ELSE /\ pc' = "exit1"
               /\ UNCHANGED opened
    /\ UNCHANGED <<cfg, img, fs, bg_i, mapVars, bmpVars, iterVars, fillVars>>

\* "Set or detect the FS type."
MainSetType ==
    /\ pc = "type"
    /\ IF cfg.fs_type # "None"
       THEN pc' = "scan" /\ UNCHANGED cfg
       ELSE IF read_exact_ok(img, SB_OFFSET, SB_STRUCT_SIZE) /\ detect_e2fs(img.sb)
            THEN pc' = "scan" /\ cfg' = [cfg EXCEPT !.fs_type = "Ext2"]
            ELSE pc' = "exit1" /\ UNCHANGED cfg
    /\ UNCHANGED <<img, fs, bg_i, opened, mapVars, bmpVars, iterVars, fillVars>>

\* The scan up to the loop over the groups: the superblock is read and
\* checked, the descriptor table is read, the map is created.
ProcessDrive ==
    /\ pc = "scan"
    /\ \E r \in {process_drive_fs(img, cfg)} :
           IF r.end = "ok"
           THEN /\ fs' = r.fs
                /\ map' = new(img.drive_size)
                /\ map_len' = img.drive_size
                /\ bg_i' = 0
                /\ pc' = IF r.fs.bg_count = 0 THEN "scanned" ELSE "groups"
                /\ UNCHANGED panicked
           ELSE /\ pc' = IF r.end = "err" THEN "failed" ELSE "aborted"
                /\ panicked' = (r.end # "err")
                /\ UNCHANGED <<fs, map, map_len, bg_i>>
    /\ UNCHANGED <<cfg, img, opened, last, overflow_checks, bmpVars, iterVars, fillVars>>

\* One iteration of the loop of scan_free_space: scan_regular_bg on group
\* bg_i.  An Err ends the scan; the map is dropped with it.
ScanRegularBg ==
    /\ pc = "groups"
    /\ \E w \in {scan_regular_bg(img, fs, bg_i, NoWalk)} :
       \E r \in {apply_updates(Returned(map), w.ups, 1)} :
           IF r.panic \/ w.end \in {"panic", "overflow"}
           THEN /\ panicked' = TRUE
                /\ pc' = "aborted"
                /\ UNCHANGED <<map, bg_i>>
           ELSE IF w.end = "err"
           THEN /\ pc' = "failed"
                /\ UNCHANGED <<map, bg_i, panicked>>
           ELSE /\ map' = r.map
                /\ bg_i' = bg_i + 1
                /\ pc' = IF bg_i + 1 >= fs.bg_count THEN "scanned" ELSE "groups"
                /\ UNCHANGED panicked
    /\ UNCHANGED <<cfg, img, fs, opened, map_len, last, overflow_checks, bmpVars,
                   iterVars, fillVars>>

\* The scan returned Err and main goes on as if it had returned Ok.
MainScanFailed_ignored ==
    /\ pc = "failed"
    /\ pc' = "scanned"
    /\ UNCHANGED <<cfg, img, fs, bg_i, opened, mapVars, bmpVars, iterVars, fillVars>>

\* The scan returned Err: the error is logged and the process exits.
MainScanFailed ==
    /\ pc = "failed"
    /\ pc' = "exit1"
    /\ UNCHANGED <<cfg, img, fs, bg_i, opened, mapVars, bmpVars, iterVars, fillVars>>

\* "Report or fill."
MainReportOrFill ==
    /\ pc = "scanned"
    /\ IF cfg.report_only
       THEN pc' = "done" /\ UNCHANGED fpc
       ELSE pc' = "fill" /\ fpc' = "start"
    /\ UNCHANGED <<cfg, img, fs, bg_i, opened, mapVars, bmpVars, iterVars, fill_mode,
                   drive,
                   cursor, buf, head, gen_count, seg_i, written, wlog, all_whole,
                   write_issued>>

\* fill_free_space returned.
MainFillReturned ==
    /\ pc = "fill"
    /\ fpc \in {"done", "failed"}
    /\ pc' = IF fpc = "done" THEN "done" ELSE "exit1"
    /\ UNCHANGED <<cfg, img, fs, bg_i, opened, mapVars, bmpVars, iterVars, fillVars>>

(***************************************************************************)
(* ScanSpec: the scan of one drive image, group by group.                  *)
(***************************************************************************)

ScanInit ==
    /\ IterIdle
    /\ BitmapIdle
    /\ FillIdle
    /\ map = <<>> /\ map_len = 0 /\ panicked = FALSE /\ last = NoCall
    /\ overflow_checks \in BOOLEAN
    /\ pc = "scan"
    /\ cfg = [report_only |-> TRUE, fs_type |-> "Ext4", ignore_recovery |-> FALSE,
              ignore_readonly |-> FALSE]
    /\ \E p \in ImgParams : img = MkImage(p)
    /\ fs = <<>>
    /\ bg_i = 0
    /\ opened = "r"

ScanNext == ProcessDrive \/ ScanRegularBg

ScanSpec == ScanInit /\ [][ScanNext]_vars

(***************************************************************************)
(* MainSpec: main from the opening of the drive to its exit, on the small  *)
(* images.                                                                 *)
(***************************************************************************)

MainInit ==
    /\ IterIdle
    /\ BitmapIdle
    /\ map = <<>> /\ map_len = 0 /\ panicked = FALSE /\ last = NoCall
    /\ overflow_checks = TRUE
    /\ pc = "open"
    /\ cfg \in [report_only : BOOLEAN, fs_type : {"None", "Ext4"},
                 ignore_recovery : {FALSE}, ignore_readonly : {FALSE}]
    /\ \E p \in [log : {0}, groups : {1, 2}, feat : {"plain", "error", "blank"},
                  bgf : {{2}}, scen : {"file", "badmode"}] :
          img = MkImage(p)
    /\ fs = <<>>
    /\ bg_i = 0
    /\ opened = "closed"
    /\ fpc = "idle"
    /\ fill_mode \in {"Zero", "ChaCha20"}
    /\ drive = [o \in 1..img.drive_size |-> OrigByte]
    /\ cursor = 0
    /\ buf = <<>>
    /\ head = 0
    /\ gen_count = 0
    /\ seg_i = 0
    /\ written = 0
    /\ wlog = <<>>
    /\ all_whole = TRUE
    /\ write_issued = FALSE

MainNext ==
    \/ MainOpen
    \/ MainSetType
    \/ ProcessDrive
    \/ ScanRegularBg
    \/ MainScanFailed
    \/ MainReportOrFill
    \/ FillBegin
    \/ FillNextSegment
    \/ FillWrite
    \/ FillSegmentDone
    \/ MainFillReturned

MainSpec == MainInit /\ [][MainNext]_vars

(***************************************************************************)
(* The scan and main: properties.                                          *)
(***************************************************************************)

\* C1: after a successful scan of a consistent file system, every data block
\* referenced by an allocated directory inode or by the journal inode, and
\* every indirect-pointer block of an allocated inode, is Used in the usage
\* map, so that no byte labelled Free lies in a block an allocated inode
\* references.  The allocated inodes are those whose bit is set in the inode
\* bitmap of their group on the drive.
C1_ReferencedBlocksUsed ==
    LET b == bs(fs.sb.s_log_block_size)
        desc(g) == fetch_regular_bg_descriptor(g, fs)
        allocated(g) ==
            {idx \in 0..(fs.sb.s_inodes_per_group - 1) :
                check_bit(bitmap_at(img, inode_bitmap_block_of(desc(g), fs) * b), idx)}
        inode(g, idx) == itable_at(img, inode_table_block_of(desc(g), fs) * b)[idx + 1]
        type(g, idx) == inode_type_of(inode(g, idx), idx, g, fs)
        data_blocks(g, idx) ==
            IF type(g, idx) \in {"Directory", "Journal"}
            THEN {inode(g, idx).i_block[k] : k \in 1..DIRECT_BLOCKS} \ {0}
            ELSE {}
        pointer_blocks(g, idx) ==
            IF /\ type(g, idx) \notin {"Skipped", "Invalid"}
               /\ inode(g, idx).i_blocks_lo > 0
               /\ ~inode_has("IFlags", inode(g, idx).i_flags, "extents")
               /\ ~inode_has("IFlags", inode(g, idx).i_flags, "inline_data")
            THEN {inode(g, idx).i_block[k] : k \in (DIRECT_BLOCKS + 1)..N_BLOCKS} \ {0}
            ELSE {}
    IN  (pc = "scanned" /\ img.consistent) =>
            \A g \in 0..(fs.bg_count - 1) : \A idx \in allocated(g) :
                \A blk \in data_blocks(g, idx) \cup pointer_blocks(g, idx) :
                    \A o \in (blk * b)..(blk * b + b - 1) : status_at(map, o) = Used

\* C10: with --report-only no write is ever issued to the drive: the drive is
\* not opened with write access, the fill step is never entered and the
\* drive keeps the bytes it had.
C10_ReportOnlyNeverWrites ==
    cfg.report_only =>
        /\ ~write_issued
        /\ opened # "rw"
        /\ pc # "fill"
        /\ fpc = "idle"
        /\ \A o \in DOMAIN drive : drive[o] = OrigByte

\* A report-only run that opened the drive, scanned it and printed the map.
C10_Witness == cfg.report_only /\ pc = "done" /\ opened = "r" /\ Len(map) > 1


(***************************************************************************)
(* scan_regular_bg: the superblock copies and the descriptor tables.       *)
(***************************************************************************)

\* C11: after every successful scan of a file system with at least one block
\* group, the boot area and the primary superblock, bytes [0, 2048) of the
\* drive, are Used in the map, whatever sparse_super, sparse_super2 and
\* s_backup_bgs are.
C11_BootAndSuperblockUsed ==
    (pc = "scanned" /\ fs.bg_count >= 1) =>
        \A o \in 0..(BOOT_AND_SB - 1) : status_at(map, o) = Used


\* C12: with sparse_super set and sparse_super2 clear, the scan of group g
\* marks the superblock backup of the group and its copy of the descriptor
\* table Used if and only if g is 0 or a power of 3, 5 or 7.  The file
\* systems looked at have no checksum feature, so that a marked copy of the
\* table is marked whole.
C12_SparseSuperPowers ==
    LET power_of(g, base) == \E k \in 0..g : base ^ k = g
        holds_backup(g) ==
            g = 0 \/ power_of(g, 3) \/ power_of(g, 5) \/ power_of(g, 7)
        sb_bytes(g) ==
            IF g = 0 THEN 0..(BOOT_AND_SB - 1)
            ELSE start_of_bg(g, fs)..(start_of_bg(g, fs) + BACKUP_SB - 1)
        gdt_bytes(g) ==
            gdt_start_of(fs, g)..(gdt_start_of(fs, g) + fs.bg_count * fs.desc_size - 1)
        all_used(S) == \A o \in S : status_at(map, o) = Used
        none_used(S) == \A o \in S : status_at(map, o) = Free
    IN  (/\ pc \in {"groups", "scanned"}
         /\ fs.opts.dyn_cfg
         /\ has("RoCompatFeatures", fs.opts.ro_compat, "sparse_super")
         /\ ~has("CompatFeatures", fs.opts.compat, "sparse_super2")
         /\ ~has_csum_of(fs)) =>
            \A g \in 0..(bg_i - 1) :
                IF holds_backup(g)
                THEN all_used(sb_bytes(g) \cup gdt_bytes(g))
                ELSE none_used(sb_bytes(g) \cup gdt_bytes(g))


(***************************************************************************)
(* OptsSpec: main on one small drive whose superblock is varied in the     *)
(* fields get_and_check_fs_options looks at.                               *)
(***************************************************************************)

\* The superblocks checked: that of a plain one-group file system with either
\* s_state, or s_creator_os, or up to two bits of the three feature words
\* replaced, or with a journal and s_default_mount_opts replaced.
CheckedSuperblocks ==
    LET base == img_superblock([log |-> 0, groups |-> 1, feat |-> "plain",
                                bgf |-> {2}, scen |-> "file"])
        feature_bits ==
            ({"compat"} \X {2, 7, 8, 9, 13})
            \cup ({"incompat"} \X {2, 3, 4, 5, 6, 12, 16, 18})
            \cup ({"ro_compat"} \X {0, 4, 10, 12, 14, 17})
        word(X, name) == {x[2] : x \in {y \in X : y[1] = name}}
    IN  {[base EXCEPT !.s_state = st] : st \in SUBSET {0, 1, 2, 3, 5, 6}}
        \cup {[base EXCEPT !.s_creator_os = os] : os \in 0..6}
        \cup {[base EXCEPT !.s_feature_compat = {2}, !.s_default_mount_opts = mo] :
                 mo \in SUBSET {2, 7, 12, 13, 14}}
        \cup {[base EXCEPT !.s_feature_compat = word(X, "compat"),
                           !.s_feature_incompat = @ \cup word(X, "incompat"),
                           !.s_feature_ro_compat = word(X, "ro_compat")] :
                 X \in {Y \in SUBSET feature_bits : Cardinality(Y) <= 2}}

OptsInit ==
    /\ IterIdle
    /\ BitmapIdle
    /\ map = <<>> /\ map_len = 0 /\ panicked = FALSE /\ last = NoCall
    /\ overflow_checks = TRUE
    /\ pc = "open"
    /\ cfg \in [report_only : BOOLEAN, fs_type : {"Ext4"},
                 ignore_recovery : BOOLEAN, ignore_readonly : BOOLEAN]
    /\ \E sb \in CheckedSuperblocks :
          img = [MkImage([log |-> 0, groups |-> 1, feat |-> "plain", bgf |-> {2},
                          scen |-> "file"]) EXCEPT !.sb = sb]
    /\ fs = <<>>
    /\ bg_i = 0
    /\ opened = "closed"
    /\ fpc = "idle"
    /\ fill_mode = "Zero"
    /\ drive = [o \in 1..img.drive_size |-> OrigByte]
    /\ cursor = 0
    /\ buf = <<>>
    /\ head = 0
    /\ gen_count = 0
    /\ seg_i = 0
    /\ written = 0
    /\ wlog = <<>>
    /\ all_whole = TRUE
    /\ write_issued = FALSE

OptsSpec == OptsInit /\ [][MainNext]_vars

\* C13: get_and_check_fs_options returns an error whenever s_state has the
\* error bit, the fc_replay bit or a bit outside {valid, error, orphan,
\* fc_replay}; the run then ends without a usage map and without a write to
\* the drive.  The valid and orphan bits never decide: a superblock whose
\* s_state has only these is rejected exactly when it is rejected with
\* s_state = valid.
C13_BadStateRejected ==
    LET st == img.sb.s_state
        VALID == 0
        ERROR == 1
        ORPHAN == 2
        FC_REPLAY == 5
        bad == ERROR \in st \/ FC_REPLAY \in st
               \/ st \ {VALID, ERROR, ORPHAN, FC_REPLAY} # {}
    IN  /\ bad =>
            /\ get_and_check_fs_options(img.sb, cfg).err
            /\ pc \in {"open", "type", "scan", "failed", "exit1"}
            /\ map = <<>>
            /\ ~write_issued
            /\ \A o \in DOMAIN drive : drive[o] = OrigByte
        /\ st \subseteq {VALID, ORPHAN} =>
            get_and_check_fs_options(img.sb, cfg).err
                = get_and_check_fs_options([img.sb EXCEPT !.s_state = {VALID}], cfg).err

\* The scan of a drive whose s_state has a bit that is not known has failed.
C13_Witness ==
    /\ 3 \in img.sb.s_state
    /\ 1 \notin img.sb.s_state /\ 5 \notin img.sb.s_state
    /\ pc = "failed"


\* C14: s_creator_os decodes to Linux, Hurd, Masix, FreeBSD and Lites for the
\* values 0, 1, 2, 3 and 4, and every other value makes the validation fail.
C14_CreatorDecoded ==
    LET os == img.sb.s_creator_os
        creator == <<"Linux", "Hurd", "Masix", "FreeBSD", "Lites">>
    IN  /\ os \notin 0..4 => get_and_check_fs_options(img.sb, cfg).err
        /\ (os \in 0..4 /\ pc \in {"groups", "scanned"}) =>
               fs.opts.fs_creator = creator[os + 1]


\* C15: for a Dynamic-revision superblock the validation of the feature words
\* rejects exactly when compat has an unknown bit, exclude_inode or
\* exclude_bitmap; or incompat has an unknown bit, journal_dev, meta_bg,
\* dirdata, encrypt, or recover while ignore_recovery is off; or ro_compat has
\* an unknown bit, shared_blocks, gdt_csum (alone or with metadata_csum), or
\* readonly while ignore_readonly is off.  ignore_recovery and ignore_readonly
\* change the outcome only for a superblock whose sole grounds of rejection
\* are recover and readonly.  A superblock is looked at when the checks
\* outside the feature words accept it, that is, when it is accepted at
\* revision GoodOld; a rejected one never reaches the scan of the groups.
C15_FeatureWordsRejected ==
    LET sb        == img.sb
        compat    == sb.s_feature_compat
        incompat  == sb.s_feature_incompat
        ro_compat == sb.s_feature_ro_compat
        err(c)    == get_and_check_fs_options(sb, c).err
        otherwise_accepted ==
            /\ sb.s_rev_level = 1
            /\ ~get_and_check_fs_options([sb EXCEPT !.s_rev_level = 0], cfg).err
        always_rejected ==
            \/ has_unknown("CompatFeatures", compat) \/ 7 \in compat \/ 8 \in compat
            \/ has_unknown("IncompatFeatures", incompat)
            \/ 3 \in incompat \/ 4 \in incompat \/ 12 \in incompat \/ 16 \in incompat
            \/ has_unknown("RoCompatFeatures", ro_compat)
            \/ 14 \in ro_compat \/ 4 \in ro_compat
        rejected(c) ==
            \/ always_rejected
            \/ (2 \in incompat /\ ~c.ignore_recovery)
            \/ (12 \in ro_compat /\ ~c.ignore_readonly)
        with(ir, iro) == [cfg EXCEPT !.ignore_recovery = ir, !.ignore_readonly = iro]
    IN  otherwise_accepted =>
            /\ err(cfg) <=> rejected(cfg)
            /\ rejected(cfg) => pc \in {"open", "type", "scan", "failed", "exit1"}
            /\ \A ir, iro \in BOOLEAN :
                   err(with(ir, iro)) # err(with(FALSE, FALSE)) =>
                       /\ ~always_rejected
                       /\ (2 \in incompat /\ ir) \/ (12 \in ro_compat /\ iro)

\* A file system that needs recovery was scanned under --ignore-recovery.
C15_Witness ==
    /\ 2 \in img.sb.s_feature_incompat
    /\ cfg.ignore_recovery
    /\ pc = "scanned"


\* C16: for every flag wrapper (State, CompatFeatures, IncompatFeatures,
\* RoCompatFeatures, DefMountOpts, Flags, BgFlags, IFlags, IMode) and every
\* value of its word, get_unknown() is exactly the bits of the word that no
\* has_* query of the wrapper tests: every bit position is tested by a query
\* or reported unknown, never neither and never both.  It is stated of the
\* words of a drive whose superblock has been accepted, and of every word of
\* one bit.
C16_UnknownIsUntested ==
    LET sb == img.sb
        U16_BITS == 0..15
        U32_BITS == 0..31
        tested(wrapper) ==
            UNION {flag_bits(wrapper)[f] : f \in DOMAIN flag_bits(wrapper)}
        inode_tested(wrapper) ==
            UNION {inode_flag_bits(wrapper)[f] : f \in DOMAIN inode_flag_bits(wrapper)}
        exact(wrapper, w) == get_unknown(wrapper, w) = w \ tested(wrapper)
        inode_exact(wrapper, w) ==
            inode_get_unknown(wrapper, w) = w \ inode_tested(wrapper)
        descs  == UNION {{img.gdts[off][k] : k \in DOMAIN img.gdts[off]} :
                            off \in DOMAIN img.gdts}
        inodes == UNION {{img.itables[off][k] : k \in DOMAIN img.itables[off]} :
                            off \in DOMAIN img.itables}
    IN  pc \in {"groups", "scanned", "fill", "done"} =>
            /\ exact("State", sb.s_state)
            /\ exact("CompatFeatures", sb.s_feature_compat)
            /\ exact("IncompatFeatures", sb.s_feature_incompat)
            /\ exact("RoCompatFeatures", sb.s_feature_ro_compat)
            /\ exact("DefMountOpts", sb.s_default_mount_opts)
            /\ exact("Flags", sb.s_flags)
            /\ \A d \in descs : exact("BgFlags", d.bg_flags)
            /\ \A i \in inodes : /\ inode_exact("IFlags", i.i_flags)
                                 /\ inode_exact("IMode", i.i_mode)
            /\ \A wrapper \in {"State", "BgFlags"} :
                   \A b \in U16_BITS : exact(wrapper, {b})
            /\ \A wrapper \in {"CompatFeatures", "IncompatFeatures",
                               "RoCompatFeatures", "DefMountOpts", "Flags"} :
                   \A b \in U32_BITS : exact(wrapper, {b})
            /\ \A b \in U32_BITS : inode_exact("IFlags", {b})
            /\ \A b \in U16_BITS : inode_exact("IMode", {b})


(***************************************************************************)
(* IterSpec: an ExtentTreeIterator over an extent tree held in memory, as  *)
(* `for e in ExtentTreeIterator::new(&tree)` drives it.                    *)
(***************************************************************************)

\* The most entries of a node of the trees iterated.
MaxFan == 2

\* The shapes of the trees whose leaves all sit at depth d: a leaf is the
\* number of its extents (up to leaf_max), an index node the sequence of the
\* shapes of its subnodes.
RECURSIVE TreeShapes(_, _)
TreeShapes(d, leaf_max) ==
    IF d = 0 THEN 0..leaf_max
    ELSE UNION {[1..n -> TreeShapes(d - 1, leaf_max)] : n \in 0..MaxFan}

\* The Node of a shape, as from_raw and populate_subnodes build it.  Every
\* extent is told apart by its path from the root, written as a number in
\* base MaxFan + 1: it is both the ee_block and the start block of the extent.
RECURSIVE node_of(_, _, _)
node_of(shape, d, path) ==
    IF d = 0
    THEN [eh_entries |-> shape, eh_depth |-> 0, kind |-> "Extents",
          entries    |-> [k \in 1..shape |->
                             [block |-> path * (MaxFan + 1) + k, len |-> 1,
                              start |-> path * (MaxFan + 1) + k]],
          subnodes   |-> <<>>, populated |-> FALSE]
    ELSE [eh_entries |-> Len(shape), eh_depth |-> d, kind |-> "Indexes",
          entries    |-> [k \in 1..Len(shape) |-> ZeroEntry],
          subnodes   |-> [k \in 1..Len(shape) |->
                             node_of(shape[k], d - 1, path * (MaxFan + 1) + k)],
          populated  |-> TRUE]

\* Iterator::next: try_find_element is called until it finds an item or the
\* end; r is what the last call returned.
RECURSIVE next(_, _, _)
next(tree, r, fuel) ==
    IF r.res # "BadPath" THEN r
    ELSE IF fuel = 0 THEN [r EXCEPT !.res = "Overflow"]
    ELSE next(tree, try_find_element(tree, r.indices), fuel - 1)

\* The trees of depth 0, 1 and 2; the leaves of the deepest hold at most one
\* extent.
IterInit ==
    /\ BitmapIdle
    /\ FillIdle
    /\ MainIdle
    /\ map = <<>> /\ map_len = 0 /\ panicked = FALSE /\ last = NoCall
    /\ overflow_checks = TRUE
    /\ \E d \in 0..2 : \E shape \in TreeShapes(d, IF d = 2 THEN 1 ELSE MaxFan) :
          it_tree = node_of(shape, d, 0)
    /\ it_indices = ExtentTreeIterator_new(it_tree)
    /\ it_yielded = <<>>
    /\ it_pc = "iter"

\* One call of next by the for loop.
IterNextItem ==
    /\ it_pc = "iter"
    /\ \E r \in {next(it_tree, try_find_element(it_tree, it_indices), MaxDescents)} :
          /\ it_indices' = r.indices
          /\ it_yielded' = IF r.res = "Found" THEN Append(it_yielded, r.item)
                           ELSE it_yielded
          /\ it_pc' = CASE r.res = "Found" -> "iter"
                        [] r.res = "End"   -> "done"
                        [] OTHER           -> "panicked"
    /\ UNCHANGED <<it_tree, mapVars, bmpVars, fillVars, mainVars>>

IterSpec == IterInit /\ [][IterNextItem]_vars

\* The extents of a tree from left to right: the subtrees in index order, the
\* extents of a leaf in entry order.
RECURSIVE extents_in_order(_)
extents_in_order(node) ==
    LET upto[i \in 0..Len(node.subnodes)] ==
            IF i = 0 THEN <<>> ELSE upto[i - 1] \o extents_in_order(node.subnodes[i])
    IN  IF node.kind = "Extents" THEN node.entries ELSE upto[Len(node.subnodes)]

\* C17: over a tree whose leaves all sit at the root's eh_depth and that
\* holds L extents (empty leaves and empty index nodes allowed), the iterator
\* yields exactly L items: each extent once, in left-to-right order.  While
\* it runs, what it has yielded is a prefix of that order, and it neither
\* panics nor fails to end.
C17_IteratorYieldsAllInOrder ==
    it_pc # "idle" =>
        /\ it_pc \in {"iter", "done"}
        /\ Len(it_yielded) <= Len(extents_in_order(it_tree))
        /\ it_yielded = SubSeq(extents_in_order(it_tree), 1, Len(it_yielded))
        /\ it_pc = "done" => it_yielded = extents_in_order(it_tree)

\* The iterator has come to the end of a tree of depth 2 that has an empty
\* index node and an empty leaf before its last extent.
C17_Witness ==
    /\ it_pc = "done"
    /\ it_tree.eh_depth = 2
    /\ Len(it_tree.subnodes) = 2
    /\ Len(it_tree.subnodes[1].subnodes) = 0
    /\ Len(it_tree.subnodes[2].subnodes) = 2
    /\ Len(it_tree.subnodes[2].subnodes[1].entries) = 0
    /\ Len(it_yielded) = 1


\* C18: with sparse_super2 set, the scan of group g marks the superblock
\* backup of the group and its copy of the descriptor table Used if and only
\* if g is s_backup_bgs[0] or s_backup_bgs[1], whether or not sparse_super is
\* set as well: the rule of sparse_super is not consulted.  The file systems
\* looked at have no checksum feature, so that a marked copy of the table is
\* marked whole.
C18_SparseSuper2Dominant ==
    LET sb_bytes(g) ==
            IF g = 0 THEN 0..(BOOT_AND_SB - 1)
            ELSE start_of_bg(g, fs)..(start_of_bg(g, fs) + BACKUP_SB - 1)
        gdt_bytes(g) ==
            gdt_start_of(fs, g)..(gdt_start_of(fs, g) + fs.bg_count * fs.desc_size - 1)
    IN  (/\ pc \in {"groups", "scanned"}
         /\ fs.opts.dyn_cfg
         /\ 9 \in fs.sb.s_feature_compat
         /\ ~has_csum_of(fs)) =>
            \A g \in 0..(bg_i - 1) :
                \A o \in sb_bytes(g) \cup gdt_bytes(g) :
                    status_at(map, o) =
                        IF g = fs.sb.s_backup_bgs[1] \/ g = fs.sb.s_backup_bgs[2]
                        THEN Used ELSE Free

\* A scan with sparse_super2 and sparse_super both set has passed group 3,
\* which the rule of sparse_super alone would include, and left the first
\* bytes of the group Free, and has marked those of group 1, which that rule
\* would skip.
C18_Witness ==
    /\ pc = "scanned"
    /\ 9 \in fs.sb.s_feature_compat
    /\ 0 \in fs.sb.s_feature_ro_compat
    /\ fs.bg_count > 3
    /\ fs.sb.s_backup_bgs = <<1, fs.bg_count - 1>>
    /\ status_at(map, start_of_bg(3, fs)) = Free
    /\ status_at(map, start_of_bg(1, fs)) = Used


\* C19: in a group whose superblock copy is not skipped, when a checksum
\* feature is active, slot i of the group's copy of the descriptor table,
\* [gdt_start + i * desc_size, gdt_start + (i + 1) * desc_size), is marked
\* Used if and only if the descriptor read from that copy passes the checksum
\* verification for group number i; when no checksum feature is active the
\* whole range [gdt_start, gdt_start + bg_count * desc_size) is marked Used.
C19_VerifiedSlotsMarked ==
    LET copy(g) == gdt_at(img, gdt_start_of(fs, g), fs.bg_count)
        slot(g, i) ==
            (gdt_start_of(fs, g) + i * fs.desc_size)
                ..(gdt_start_of(fs, g) + (i + 1) * fs.desc_size - 1)
        checksummed ==
            /\ fs.opts.dyn_cfg
            /\ (10 \in fs.sb.s_feature_ro_compat \/ 4 \in fs.sb.s_feature_ro_compat)
    IN  pc \in {"groups", "scanned"} =>
            \A g \in 0..(bg_i - 1) :
                ~skip_super_of(fs, g) =>
                    \A i \in 0..(fs.bg_count - 1) : \A o \in slot(g, i) :
                        status_at(map, o) =
                            IF checksummed /\ copy(g)[i + 1].csum_of # i
                            THEN Free ELSE Used

\* A scan with metadata_csum has ended: in the master table the slot of
\* group 1, whose checksum is stale there, is Free, and in the copy of
\* group 3, where it verifies, the slot of group 1 is Used.
C19_Witness ==
    /\ pc = "scanned"
    /\ has_csum_of(fs)
    /\ fs.bg_count > 3
    /\ gdt_at(img, gdt_start_of(fs, 0), fs.bg_count)[2].csum_of # 1
    /\ status_at(map, gdt_start_of(fs, 0) + fs.desc_size) = Free
    /\ status_at(map, gdt_start_of(fs, 0)) = Used
    /\ status_at(map, gdt_start_of(fs, 3) + fs.desc_size) = Used


\* C20: when a checksum feature is active and the master-table descriptor of
\* group g fails its checksum verification, scan_regular_bg makes no map
\* update for that group's inode bitmap, block bitmap, inode table or inodes
\* (the map changes at most inside the group's superblock copy and table
\* copy, handled before the descriptor is fetched), returns success, and the
\* scan goes on with group g + 1.
C20_FailedDescriptorSkipsGroup ==
    [][LET g == bg_i
           before == IF skip_super_of(fs, g) THEN NoWalk
                     ELSE scan_super_and_gdt(img, fs, g, NoWalk)
           copies == IF skip_super_of(fs, g) THEN {}
                     ELSE (IF g = 0 THEN 0 ELSE start_of_bg(g, fs))
                              ..(gdt_start_of(fs, g) + fs.bg_count * fs.desc_size - 1)
           failing ==
               /\ pc = "groups"
               /\ has_csum_of(fs)
               /\ verify_desc_csum(fetch_regular_bg_descriptor(g, fs), g, fs) = "false"
               /\ before.end = "ok"
       IN  failing =>
               /\ pc' = IF g + 1 >= fs.bg_count THEN "scanned" ELSE "groups"
               /\ bg_i' = g + 1
               /\ ~panicked'
               /\ \A o \in (0..(map[Len(map)].end - 1)) \ copies :
                      status_at(map', o) = status_at(map, o)]_vars

\* A scan with metadata_csum has ended; the master-table descriptor of group
\* 1 fails verification: the group's bitmaps and inode table are Free, and
\* the inode table of group 2, scanned after it, is Used.
C20_Witness ==
    LET b == bs(fs.sb.s_log_block_size)
        d1 == fetch_regular_bg_descriptor(1, fs)
        d2 == fetch_regular_bg_descriptor(2, fs)
    IN  /\ pc = "scanned"
        /\ has_csum_of(fs)
        /\ fs.bg_count > 2
        /\ verify_desc_csum(d1, 1, fs) = "false"
        /\ verify_desc_csum(d2, 2, fs) = "true"
        /\ has("BgFlags", d1.bg_flags, "inode_zeroed")
        /\ ~has("BgFlags", d1.bg_flags, "inode_uninit")
        /\ ~has("BgFlags", d1.bg_flags, "block_uninit")
        /\ status_at(map, inode_bitmap_block_of(d1, fs) * b) = Free
        /\ status_at(map, block_bitmap_block_of(d1, fs) * b) = Free
        /\ status_at(map, inode_table_block_of(d1, fs) * b) = Free
        /\ status_at(map, inode_table_block_of(d2, fs) * b) = Used


(***************************************************************************)
(* scan_regular_bg: the bitmaps, the inode table and the inodes.           *)
(***************************************************************************)

CheckedInodes ==
    LET q    == [log |-> 1, groups |-> 5, feat |-> "plain", bgf |-> {2},
                 scen |-> "file"]
        b    == bs(q.log)
        n    == b \div PTR_SIZE
        D(k) == img_data(q.log, k \div ImgDataBlocks, k % ImgDataBlocks)
        IFREG == {15, 8, 7}
        none == ZeroInode.i_root
        ptrs(s) == [k \in 1..n |-> IF k <= Len(s) THEN s[k] ELSE 0]
        E(blk, len, start) == [block |-> blk, len |-> len, start |-> start]
        node(depth, es, slots) ==
            [eh_magic |-> EXT_MAGIC, eh_entries |-> Len(es), eh_depth |-> depth,
             slots |-> [k \in 1..slots |-> IF k <= Len(es) THEN es[k] ELSE ZeroEntry]]
        blk(depth, es) == node(depth, es, block_slots(q.log))
        direct(first) ==
            CASE first = "full"  -> [k \in 1..DIRECT_BLOCKS |-> D(k)]
              [] first = "hole"  -> <<D(1), 0, D(2)>>
              [] first = "empty" -> <<>>
        i_block(first, deep) ==
            [k \in 1..N_BLOCKS |->
                IF k <= Len(direct(first)) THEN direct(first)[k]
                ELSE IF k = 13 /\ deep \in {"single", "selfdata"} THEN D(13)
                ELSE IF k = 14 /\ deep = "double" THEN D(14)
                ELSE IF k = 15 /\ deep = "triple" THEN D(15)
                ELSE 0]
        tables(deep) ==
            CASE deep = "none"     -> <<>>
              [] deep = "single"   -> [t \in {D(13)} |-> ptrs(<<D(16), 0, D(17)>>)]
              [] deep = "selfdata" -> [t \in {D(13)} |-> ptrs(<<D(13), D(16)>>)]
              [] deep = "double"   ->
                   [t \in {D(13), D(14)} |->
                       IF t = D(14) THEN ptrs(<<0, D(13)>>)
                       ELSE ptrs(<<D(16), 0, D(17)>>)]
              [] deep = "triple"   ->
                   [t \in {D(13), D(14), D(15)} |->
                       IF t = D(15) THEN ptrs(<<D(14)>>)
                       ELSE IF t = D(14) THEN ptrs(<<0, D(13)>>)
                       ELSE ptrs(<<D(16), 0, D(17)>>)]
        nblocks(first, deep) ==
            (CASE first = "full" -> DIRECT_BLOCKS [] first = "hole" -> 2 [] OTHER -> 0)
            + (CASE deep = "none" -> 0 [] deep \in {"single", "selfdata"} -> 3
                 [] deep = "double" -> 4 [] OTHER -> 5)
        legacy ==
            {[idx        |-> img_file_idx,
              inode      |-> img_inode(q, IFREG, {}, sz, nblocks(first, deep),
                                       i_block(first, deep), none),
              ptr_blocks |-> tables(deep),
              ext_blocks |-> <<>>] :
                first \in {"full", "hole", "empty"},
                deep \in {"none", "single", "selfdata", "double", "triple"},
                sz \in {b + 1, 3 * b - 1, DIRECT_BLOCKS * b + 1, 14 * b}}
        leaves == [t \in {D(13), D(14)} |->
                      IF t = D(13) THEN blk(0, <<E(0, 1, D(1))>>)
                      ELSE blk(0, <<E(1, 1, D(4)), E(2, 1, D(5))>>)]
        tree(shape) ==
            CASE shape = "leafroot1" ->
                   [root |-> node(0, <<E(0, 2, D(1))>>, ROOT_SLOTS), blocks |-> <<>>]
              [] shape = "leafroot2" ->
                   [root |-> node(0, <<E(0, 1, D(1)), E(2, 2, D(2))>>, ROOT_SLOTS),
                    blocks |-> <<>>]
              [] shape = "one" ->
                   [root |-> node(1, <<E(0, 0, D(13))>>, ROOT_SLOTS),
                    blocks |-> [t \in {D(13)} |->
                                   blk(0, <<E(0, 1, D(1)), E(1, 2, D(2))>>)]]
              [] shape = "two" ->
                   [root |-> node(1, <<E(0, 0, D(13)), E(1, 0, D(14))>>, ROOT_SLOTS),
                    blocks |-> leaves]
              [] shape = "deep" ->
                   [root |-> node(2, <<E(0, 0, D(15))>>, ROOT_SLOTS),
                    blocks |-> [t \in {D(13), D(14), D(15)} |->
                                   IF t = D(15)
                                   THEN blk(1, <<E(0, 0, D(13)), E(1, 0, D(14))>>)
                                   ELSE leaves[t]]]
              [] shape = "self" ->
                   [root |-> node(1, <<E(0, 0, D(13))>>, ROOT_SLOTS),
                    blocks |-> [t \in {D(13)} |-> blk(1, <<E(0, 0, D(13))>>)]]
              [] shape = "equal" ->
                   [root |-> node(1, <<E(0, 0, D(14))>>, ROOT_SLOTS),
                    blocks |-> [t \in {D(13), D(14)} |->
                                   IF t = D(14) THEN blk(1, <<E(0, 0, D(13))>>)
                                   ELSE leaves[t]]]
        extents ==
            {[idx        |-> img_file_idx,
              inode      |-> img_inode(q, IFREG, {19}, sz, 4, <<>>, tree(shape).root),
              ptr_blocks |-> <<>>,
              ext_blocks |-> tree(shape).blocks] :
                shape \in {"leafroot1", "leafroot2", "one", "two", "deep", "self",
                           "equal"},
                sz \in {b + 1, 2 * b, 3 * b + 1, 4 * b}}
        modes ==
            {[idx        |-> idx,
              inode      |-> img_inode(q, nibble \cup perm,
                                       IF ea THEN {21} ELSE {}, 2 * b - 1, 2,
                                       <<D(1), D(2)>>, none),
              ptr_blocks |-> <<>>,
              ext_blocks |-> <<>>] :
                idx \in {5, JOURNAL_INO - 1, img_file_idx},
                nibble \in SUBSET {12, 13, 14, 15},
                perm \in {{}, {8, 7}},
                ea \in BOOLEAN}
    IN  {[MkImage(q) EXCEPT
             !.consistent = FALSE,
             !.itables = [off \in DOMAIN @ |->
                             IF off = img_desc(q, 0, 0).bg_inode_table_lo * b
                             THEN [@[off] EXCEPT ![c.idx + 1] = c.inode]
                             ELSE @[off]],
             !.ptr_blocks = c.ptr_blocks,
             !.ext_blocks = c.ext_blocks] : c \in legacy \cup extents \cup modes}

InodeInit ==
    /\ IterIdle
    /\ BitmapIdle
    /\ FillIdle
    /\ map = <<>> /\ map_len = 0 /\ panicked = FALSE /\ last = NoCall
    /\ overflow_checks \in BOOLEAN
    /\ pc = "scan"
    /\ cfg = [report_only |-> TRUE, fs_type |-> "Ext4", ignore_recovery |-> FALSE,
              ignore_readonly |-> FALSE]
    /\ img \in CheckedInodes
    /\ fs = <<>>
    /\ bg_i = 0
    /\ opened = "r"

InodeSpec == InodeInit /\ [][ScanNext]_vars


\* C22: the inode at group 0, index 7 is Journal whatever its mode;
\* otherwise an inode with the ea_inode flag is Ea; otherwise each of the
\* seven file-type codes of the mode's high nibble (0x1 fifo, 0x2 character,
\* 0x4 directory, 0x6 block, 0x8 regular, 0xA symlink, 0xC socket) is
\* classified as exactly that type; otherwise the inode is skipped without
\* error iff it is in group 0, its whole i_mode is 0 and idx + 1 <
\* s_first_ino; in every remaining case scan_inode fails.
C22_InodeClassification ==
    LET itable == itable_at(img, fetch_regular_bg_descriptor(0, fs).bg_inode_table_lo
                                     * bs(fs.sb.s_log_block_size))
        expected(inode, idx) ==
            LET code == inode.i_mode \cap {12, 13, 14, 15}
            IN  IF idx + 1 = 8 THEN "Journal"
                ELSE IF 21 \in inode.i_flags THEN "Ea"
                ELSE CASE code = {12}     -> "Fifo"
                       [] code = {13}     -> "Character"
                       [] code = {14}     -> "Directory"
                       [] code = {13, 14} -> "Block"
                       [] code = {15}     -> "Regular"
                       [] code = {13, 15} -> "SymLink"
                       [] code = {14, 15} -> "Socket"
                       [] OTHER ->
                            IF inode.i_mode = {} /\ idx + 1 < fs.sb.s_first_ino
                            THEN "Skipped" ELSE "Invalid"
    IN  (pc = "groups" /\ bg_i = 0) =>
            \A idx \in 0..(fs.sb.s_inodes_per_group - 1) :
                /\ inode_type_of(itable[idx + 1], idx, 0, fs)
                       = expected(itable[idx + 1], idx)
                /\ expected(itable[idx + 1], idx) = "Invalid" =>
                       scan_inode(img, idx, 0, itable, fs, NoWalk).end = "err"
                /\ expected(itable[idx + 1], idx) = "Skipped" =>
                       scan_inode(img, idx, 0, itable, fs, NoWalk) = NoWalk


\* C23: in the walk of a block-mapped inode of file size S, a nonzero
\* pointer p that maps logical block L of the file (its position in the
\* block map, holes counted) is marked Used as [p*bs, p*bs + min(bs, S -
\* L*bs)) when L*bs < S; null pointers mark nothing; the pointers are
\* visited in the order direct 0..11, single-, double-, triple-indirect.
C23_LegacyWalkMarksByLogicalBlock ==
    LET b     == bs(fs.sb.s_log_block_size)
        n     == b \div PTR_SIZE
        inode == itable_at(img, fetch_regular_bg_descriptor(0, fs).bg_inode_table_lo * b)
                     [img_file_idx + 1]
        S     == inode.i_size_lo
        \* The pointer at position L of the block map.
        ptr(L) ==
            IF L < 12 THEN inode.i_block[L + 1]
            ELSE IF L < 12 + n THEN ptrs_at(img, inode.i_block[13])[L - 12 + 1]
            ELSE IF L < 12 + n + n * n
            THEN LET j == L - 12 - n
                 IN  ptrs_at(img, ptrs_at(img, inode.i_block[14])[(j \div n) + 1])
                         [(j % n) + 1]
            ELSE LET j == L - 12 - n - n * n
                 IN  ptrs_at(img,
                         ptrs_at(img,
                             ptrs_at(img, inode.i_block[15])[(j \div (n * n)) + 1])
                                 [((j \div n) % n) + 1])
                                     [(j % n) + 1]
        keep  == {L \in 0..(12 + n + n * n + n * n * n - 1) : ptr(L) # 0 /\ L * b < S}
        nth(k) == CHOOSE L \in keep : Cardinality({m \in keep : m < L}) = k - 1
        expected ==
            [k \in 1..Cardinality(keep) |->
                <<ptr(nth(k)) * b,
                  IF S - nth(k) * b < b THEN S - nth(k) * b ELSE b,
                  Used>>]
    IN  (/\ pc = "groups" /\ bg_i = 0
         /\ 19 \notin inode.i_flags
         /\ get_block_count(inode, fs) > 0) =>
            scan_legacy(img, inode, fs, NoWalk).ups = expected


\* C24: the walk of a single-, double- or triple-indirect block at physical
\* block p makes no map update for the range [p*bs, (p+1)*bs) of the table
\* itself: after the walk that range has the status it had before (Free, in
\* the data area of a new map), unless a data pointer of the block map
\* refers to block p.
C24_IndirectTablesNotMarked ==
    LET b     == bs(fs.sb.s_log_block_size)
        inode == itable_at(img, fetch_regular_bg_descriptor(0, fs).bg_inode_table_lo * b)
                     [img_file_idx + 1]
        entries(S) == UNION {{ptrs_at(img, t)[k] : k \in 1..(b \div PTR_SIZE)} : t \in S}
        single == {inode.i_block[13]}
        double == {inode.i_block[14]}
        triple == {inode.i_block[15]}
        tables == (single \cup double \cup entries(double)
                      \cup triple \cup entries(triple) \cup entries(entries(triple)))
                  \ {0}
        data   == ({inode.i_block[k] : k \in 1..12}
                      \cup entries(single) \cup entries(entries(double))
                      \cup entries(entries(entries(triple))))
                  \ {0}
    IN  (/\ pc \in {"groups", "scanned"} /\ bg_i > 0
         /\ 19 \notin inode.i_flags) =>
            \A p \in tables \ data : \A o \in (p * b)..((p + 1) * b - 1) :
                status_at(map, o) = Free

\* The scan has ended on a drive whose file has a triple-indirect block: the
\* data block reached through the three tables is Used, the three tables are
\* Free.
C24_Witness ==
    LET b     == bs(fs.sb.s_log_block_size)
        inode == itable_at(img, fetch_regular_bg_descriptor(0, fs).bg_inode_table_lo * b)
                     [img_file_idx + 1]
        t3    == inode.i_block[15]
        t2    == ptrs_at(img, t3)[1]
        t1    == ptrs_at(img, t2)[2]
    IN  /\ pc = "scanned"
        /\ t3 # 0 /\ t2 # 0 /\ t1 # 0
        /\ ptrs_at(img, t1)[1] # 0
        /\ status_at(map, ptrs_at(img, t1)[1] * b) = Used
        /\ status_at(map, t1 * b) = Free
        /\ status_at(map, t2 * b) = Free
        /\ status_at(map, t3 * b) = Free


\* C25: for an extent-mapped inode of file size S, each leaf extent
\* (logical, len, phys) that the iterator produces contributes nothing when
\* logical*bs >= S and otherwise marks exactly [phys*bs, phys*bs +
\* min(len*bs, S - logical*bs)) Used; no leaf causes any other mark.  The
\* leaves are taken from the drive, left to right, on trees whose nodes have
\* the depth their parent gives them.
C25_LeafExtentsClipped ==
    LET b     == bs(fs.sb.s_log_block_size)
        inode == itable_at(img, fetch_regular_bg_descriptor(0, fs).bg_inode_table_lo * b)
                     [img_file_idx + 1]
        S     == inode.i_size_lo
        root  == inode.i_root
        used(nd)  == SubSeq(nd.slots, 1, nd.eh_entries)
        kids(nd)  == [k \in 1..nd.eh_entries |-> node_at(img, nd.slots[k].start)]
        \* The leaves of a tree of depth 0, 1 or 2, left to right.
        leaves1(nd) ==
            IF nd.eh_entries = 0 THEN <<>>
            ELSE IF nd.eh_entries = 1 THEN used(kids(nd)[1])
            ELSE used(kids(nd)[1]) \o used(kids(nd)[2])
        leaves ==
            IF root.eh_depth = 0 THEN used(root)
            ELSE IF root.eh_depth = 1 THEN leaves1(root)
            ELSE IF root.eh_entries = 1 THEN leaves1(kids(root)[1])
            ELSE leaves1(kids(root)[1]) \o leaves1(kids(root)[2])
        well_formed ==
            /\ root.eh_depth <= 2 /\ root.eh_entries <= 2
            /\ \A k \in 1..root.eh_entries :
                   /\ root.eh_depth > 0 => /\ kids(root)[k].eh_depth = root.eh_depth - 1
                                           /\ kids(root)[k].eh_entries <= 2
                   /\ root.eh_depth > 1 =>
                          \A j \in 1..kids(root)[k].eh_entries :
                              kids(kids(root)[k])[j].eh_depth = 0
        starts_inside(e) == e.block * b < S
        inside == SelectSeq(leaves, starts_inside)
        expected ==
            [k \in 1..Len(inside) |->
                <<inside[k].start * b,
                  IF inside[k].len * b < S - inside[k].block * b
                  THEN inside[k].len * b ELSE S - inside[k].block * b,
                  Used>>]
    IN  (/\ pc = "groups" /\ bg_i = 0
         /\ 19 \in inode.i_flags
         /\ get_block_count(inode, fs) > 0
         /\ well_formed) =>
            scan_extents(img, inode, fs, NoWalk).ups
                = scan_extent_tree(img, inode, fs, NoWalk).ups \o expected

\* The scan has ended on a drive whose file has two extents in the inode, the
\* second reaching one byte past the file size: the bytes of the second up
\* to the file size are Used, the next byte is Free.
C25_Witness ==
    LET b     == bs(fs.sb.s_log_block_size)
        inode == itable_at(img, fetch_regular_bg_descriptor(0, fs).bg_inode_table_lo * b)
                     [img_file_idx + 1]
        e     == inode.i_root.slots[2]
    IN  /\ pc = "scanned"
        /\ 19 \in inode.i_flags
        /\ inode.i_root.eh_depth = 0 /\ inode.i_root.eh_entries = 2
        /\ e.block * b < inode.i_size_lo
        /\ inode.i_size_lo < e.block * b + e.len * b
        /\ status_at(map, e.start * b + (inode.i_size_lo - e.block * b) - 1) = Used
        /\ status_at(map, e.start * b + (inode.i_size_lo - e.block * b)) = Free


\* C26: for every drive content, scanning and building the extent tree of an
\* inode terminates: the recursion of scan_extent_block and of
\* populate_subnodes descends at most the root's eh_depth levels, also when
\* an index entry points to a block that holds a node of equal or greater
\* depth or to the node's own block.
C26_ExtentRecursionBounded ==
    LET b     == bs(fs.sb.s_log_block_size)
        inode == itable_at(img, fetch_regular_bg_descriptor(0, fs).bg_inode_table_lo * b)
                     [img_file_idx + 1]
    IN  (/\ pc = "groups" /\ bg_i = 0
         /\ 19 \in inode.i_flags
         /\ inode.i_root.eh_depth <= MaxNest) =>
            /\ scan_extent_tree(img, inode, fs, NoWalk).end # "overflow"
            /\ ExtentTree_new(img, inode, fs).end # "overflow"


(***************************************************************************)
(* The scan as a whole.                                                    *)
(***************************************************************************)

\* C27: every map update issued during a scan (by the group scanner, the
\* inode walker, the extent and indirect walkers) has status Used, so the
\* set of Used bytes only grows: a byte that is Used after some step is Used
\* after every later step and in the final map.
C27_UsedOnlyGrows ==
    [][/\ pc = "groups" =>
              \A u \in {scan_regular_bg(img, fs, bg_i, NoWalk).ups[k] :
                           k \in DOMAIN scan_regular_bg(img, fs, bg_i, NoWalk).ups} :
                  u[3] = Used
       /\ \A o \in 0..(map_len - 1) :
              (map # <<>> /\ status_at(map, o) = Used) => status_at(map', o) = Used]_vars

\* Two groups have been scanned: the boot area marked in the first step and
\* the inode table of group 1 marked in the second are both Used.
C27_Witness ==
    /\ pc \in {"groups", "scanned"}
    /\ bg_i >= 2
    /\ status_at(map, 0) = Used
    /\ status_at(map, fetch_regular_bg_descriptor(1, fs).bg_inode_table_lo
                          * bs(fs.sb.s_log_block_size)) = Used


\* C29: when every drive write accepts the whole slice, the bytes written by
\* the filler, read in write order across all Free segments, are exactly the
\* first T bytes of the concatenated blocks the generator produced (T = the
\* total of the Free bytes; the k-th byte of a stream generator is the
\* number k, the zero generator leaves zeros): the buffer head carries over
\* from one segment to the next, no generated byte goes to two drive
\* offsets, and the buffer is refilled only when all of it has been consumed.
C29_StreamWrittenInOrder ==
    LET n      == Len(wlog)
        blocks == IF n = 0 THEN 1 ELSE (n + BufLen - 1) \div BufLen
        free   == OffsetsOf(Free)
        nth(k) == CHOOSE o \in free : Cardinality({m \in free : m < o}) = k - 1
    IN  (all_whole /\ fpc \in {"iter", "write", "done", "failed"}) =>
            /\ \A k \in 1..n : wlog[k].val = IF fill_mode = "Zero" THEN 0 ELSE k
            /\ n <= Cardinality(free)
            /\ \A k \in 1..n : wlog[k].off = nth(k)
            /\ \A k \in 1..n : drive[wlog[k].off + 1] = wlog[k].val
            /\ fpc # "failed" =>
                   /\ head = n - BufLen * (blocks - 1)
                   /\ fill_mode # "Zero" => gen_count = BufLen * blocks
            /\ fpc = "done" => n = Cardinality(free)

\* A fill with a stream generator has ended, every write whole: bytes went to
\* two segments at least, the buffer was refilled, and the first byte of the
\* last segment was not the first of a buffer.
C29_Witness ==
    /\ fpc = "done" /\ all_whole /\ fill_mode = "ChaCha20"
    /\ Len(wlog) > BufLen
    /\ gen_count > BufLen
    /\ \E k \in 2..Len(wlog) :
           /\ wlog[k].seg # wlog[k - 1].seg
           /\ (k - 1) % BufLen # 0


\* C28: no byte of the drive is written before the scan of all block groups
\* has returned successfully: the scan only seeks and reads, and when the
\* validation or the scan of a group fails the program exits with the drive
\* as it was and without processing any later group.
C28_NoWriteBeforeScanSucceeded ==
    [][LET untouched(d, issued) ==
               ~issued /\ \A o \in DOMAIN d : d[o] = OrigByte
       IN  /\ ~untouched(drive', write_issued') =>
                  /\ pc' \in {"fill", "done", "exit1"}
                  /\ fs' # <<>> /\ bg_i' = fs'.bg_count
                  /\ ~panicked'
           /\ pc \in {"open", "type", "scan", "groups", "failed", "scanned"} =>
                  /\ untouched(drive, write_issued)
                  /\ untouched(drive', write_issued')
           /\ pc = "failed" => (pc' = "exit1" /\ bg_i' = bg_i /\ map' = map)
           /\ pc \in {"exit1", "aborted", "done"} => UNCHANGED vars]_vars

\* The scan of the first of two groups failed on a drive opened for writing:
\* the program has exited, the second group was not processed, the drive is
\* as it was.
C28_Witness ==
    /\ pc = "exit1"
    /\ opened = "rw"
    /\ fs # <<>> /\ fs.bg_count = 2 /\ bg_i = 0
    /\ ~write_issued
    /\ \A o \in DOMAIN drive : drive[o] = OrigByte


\* C30: over a finite tree whose leaves sit at the root's eh_depth, every
\* call of next returns after finitely many path descents: each BadPath walk
\* leaves an index vector that is strictly greater, in lexicographic order,
\* than the one it started from, and no call panics or runs out of
\* descents; once next has returned None, a later call returns None again
\* and leaves the indices as they are.
C30_IteratorTerminates ==
    LET greater(u, v) ==
            \E k \in 1..Len(v) : u[k] > v[k] /\ \A j \in 1..(k - 1) : u[j] = v[j]
        again == next(it_tree, try_find_element(it_tree, it_indices), MaxDescents)
    IN  it_pc # "idle" =>
            /\ it_pc \in {"iter", "done"}
            /\ \A v \in [1..Len(it_indices) -> 0..(MaxFan + 1)] :
                   try_find_element(it_tree, v).res = "BadPath" =>
                       greater(try_find_element(it_tree, v).indices, v)
            /\ it_pc = "done" => (again.res = "End" /\ again.indices = it_indices)

\* The iterator has come to the end of a tree of depth 1 whose first leaf is
\* empty and whose second holds two extents: it walked a bad path before the
\* first item, yielded both, and stands at the end of the root's entries.
C30_Witness ==
    /\ it_pc = "done"
    /\ it_tree.eh_depth = 1
    /\ Len(it_tree.subnodes) = 2
    /\ Len(it_tree.subnodes[1].entries) = 0
    /\ Len(it_tree.subnodes[2].entries) = 2
    /\ Len(it_yielded) = 2
    /\ it_indices[1] = it_tree.eh_entries

====
